---- MODULE Spec2Model ----
(***************************************************************************)
(* Model of the cygnus 2D canvas editor: the plot data classes             *)
(* (PointData2D, PolylineData2D, PolygonData2D), the plot store            *)
(* Canvas2DPlotData with its snapshot undo/redo history, and the editor    *)
(* controller Canvas2DQViewModel; around them the canvas widget with its   *)
(* interaction handler, and the worker threads of the algorithm runner.    *)
(*                                                                         *)
(* Python objects live on an explicit heap (a sequence of objects, an      *)
(* address being an index into it) so that in-place mutation and sharing   *)
(* of objects between the live store and the history are what the code     *)
(* makes them.  A dict is an ordered sequence of [key, ref] entries        *)
(* (Python dicts keep insertion order).                                    *)
(***************************************************************************)
EXTENDS Integers, Sequences, FiniteSets, TLC

VARIABLES
    heap,               \* address -> Python object (points, lists, shapes)
    plots,              \* Canvas2DPlotData._plots : dict id -> plot object
    undo_stack,         \* Canvas2DPlotData._undo_stack : list of dicts
    redo_stack,         \* Canvas2DPlotData._redo_stack : list of dicts
    current_plot_type,  \* Canvas2DQViewModel._current_plot_type
    current_plot_id,    \* Canvas2DQViewModel._current_plot_id
    uuid,               \* number of uuid4() values drawn so far
    steps,              \* number of calls so far that changed the store or its history
    last,               \* the last call that reached the store: name, result, signals
    pre,                \* store contents and stack depths just before that call
    trip,               \* bookkeeping of an ops / undo / redo round trip
    worker,             \* the runner's worker threads: position and signals emitted
    runner,             \* GaDPPRunnerQViewModel: loading state, live threads, and the
                        \* thread signals the main thread has not handled yet
    handler,            \* Canvas2DInteractionHandler: drag state, and the last event
    view,               \* the plot widget's view box: x and y range
    widget              \* Canvas2DQWidget: _plot_items, and how the last update() ended

\* the editor (store and controller), and what is around it
core == <<heap, plots, undo_stack, redo_stack, current_plot_type,
          current_plot_id, uuid, steps, last, pre, trip>>
gui == <<worker, runner, handler, view, widget>>
vars == <<core, gui>>

(***************************************************************************)
(* Bounds of the model and constants of the program.                       *)
(***************************************************************************)
MaxSteps == 3
MaxPolygonSteps == 5
MaxHistorySteps == 102
MaxDeepSteps == 8
MaxDeepPoints == 3
\* events handled by the interaction handler
MaxEvents == 3
\* thread signals waiting for the main thread when a request is made
MaxQueued == 2
\* how far below full the history is when undo and redo begin
MaxRedoDepth == 5
\* editor calls, and ids drawn, in the add/delete runs
MaxDeleteSteps == 5
\* delete_point_near(x, y, threshold=10.0) of a Ctrl+click
ClickThreshold == 10
\* distance > 5.0: threshold for drag detection
DragThreshold == 5
MaxUndoDepth == 100

None == "None"
NoRef == 0
POINT == "point"
POLYLINE == "polyline"
POLYGON == "polygon"
PlotData2D == {POINT, POLYLINE, POLYGON}

\* Coordinates handed to add_point / delete_point_near, and thresholds.
AddCoords == {<<0, 0>>, <<1, 0>>}
HitCoords == {<<0, 0>>, <<1, 1>>}
Thresholds == {0, 1}

(***************************************************************************)
(* Identifiers.  uuid4().hex[:8] is a fresh value: the n-th draw is n.     *)
(* A string id is [pre, n, close]: the prefix, the uuid and the number of  *)
(* "_close" suffixes appended to it.                                       *)
(***************************************************************************)
\* An id that does not depend on the uuid drawn.
MkId_reused(prefix, n) == [pre |-> prefix, n |-> 0, close |-> 0]

MkId(prefix, n) == [pre |-> prefix, n |-> n, close |-> 0]
NoId == MkId(None, 0)
CloseId(id) == [id EXCEPT !.close = @ + 1]
EndsWithClose(id) == id.close > 0

(***************************************************************************)
(* The heap.                                                               *)
(***************************************************************************)
EmptyHeap == <<>>
Alloc(h, obj) == [heap |-> Append(h, obj), ref |-> Len(h) + 1]
List(items) == [cls |-> "list", items |-> items]
Items(h, plotRef) == h[h[plotRef].points].items

IsPoint(obj) == obj.cls = "PointData2D"
IsPolyline(obj) == obj.cls = "PolylineData2D"
IsPolygon(obj) == obj.cls = "PolygonData2D"

(***************************************************************************)
(* PointData2D                                                             *)
(***************************************************************************)
PointData2D(id, x, y, color, deletable, update) ==
    [cls |-> "PointData2D", id |-> id, color |-> color, type |-> POINT,
     update |-> update, x |-> x, y |-> y, deletable |-> deletable]

\* The test below with a strict comparison.
distance_to_within_strict(p, x, y, threshold) ==
    /\ threshold >= 0
    /\ (p.x - x) * (p.x - x) + (p.y - y) * (p.y - y) < threshold * threshold

\* p.distance_to(x, y) <= threshold, on integers:
\* sqrt(dx^2 + dy^2) <= t  iff  t >= 0 and dx^2 + dy^2 <= t^2.
distance_to_within(p, x, y, threshold) ==
    /\ threshold >= 0
    /\ (p.x - x) * (p.x - x) + (p.y - y) * (p.y - y) <= threshold * threshold

(***************************************************************************)
(* PolylineData2D                                                          *)
(***************************************************************************)
\* PolylineData2D(id, points, color, update) with points an existing list.
PolylineData2D(h, id, pointsRef, color, update) ==
    Alloc(h, [cls |-> "PolylineData2D", id |-> id, color |-> color,
              type |-> POLYLINE, update |-> update, points |-> pointsRef])

Polyline_add_point(h, ref, pointRef) ==
    [h EXCEPT ![h[ref].points].items = Append(@, pointRef),
              ![ref].update = TRUE]

RemoveAt(s, i) == [j \in 1..(Len(s) - 1) |-> IF j < i THEN s[j] ELSE s[j + 1]]
InsertAt(s, i, e) ==
    [j \in 1..(Len(s) + 1) |-> IF j < i THEN s[j] ELSE IF j = i THEN e ELSE s[j - 1]]

Min(S) == CHOOSE m \in S : \A n \in S : m <= n

\* Index of the first point of the shape whose id is point_id, 0 if none.
FirstWithId(h, ref, point_id) ==
    LET pts == Items(h, ref)
        hit == {i \in 1..Len(pts) : h[pts[i]].id = point_id}
    IN IF hit = {} THEN 0 ELSE CHOOSE i \in hit : \A j \in hit : i <= j

Polyline_remove_point(h, ref, point_id) ==
    LET i == FirstWithId(h, ref, point_id)
    IN IF i = 0
       THEN [heap |-> h, ret |-> FALSE]
       ELSE [heap |-> [h EXCEPT ![h[ref].points].items = RemoveAt(@, i),
                                ![ref].update = TRUE],
             ret |-> TRUE]

(***************************************************************************)
(* PolygonData2D                                                           *)
(***************************************************************************)
_ensure_closed(h, ref) ==
    LET self == h[ref]
        pts == h[self.points].items
    IN IF Len(pts) >= 3 /\ ~self.closed
       THEN LET first_point == h[pts[1]]
                last_point == h[pts[Len(pts)]]
                h1 == IF first_point.x # last_point.x \/ first_point.y # last_point.y
                      THEN LET a == Alloc(h, PointData2D(CloseId(first_point.id),
                                                         first_point.x, first_point.y,
                                                         first_point.color, FALSE, TRUE))
                           IN [a.heap EXCEPT ![self.points].items = Append(@, a.ref)]
                      ELSE h
            IN [h1 EXCEPT ![ref].closed = TRUE]
       ELSE h

\* PolygonData2D(id, points, color, update) with points an existing list.
PolygonData2D(h, id, pointsRef, color, update) ==
    LET a == Alloc(h, [cls |-> "PolygonData2D", id |-> id, color |-> color,
                       type |-> POLYGON, update |-> update, points |-> pointsRef,
                       closed |-> FALSE])
    IN IF Len(h[pointsRef].items) >= 3
       THEN [heap |-> _ensure_closed(a.heap, a.ref), ref |-> a.ref]
       ELSE a

Polygon_add_point(h, ref, pointRef) ==
    LET self == h[ref]
        pts == h[self.points].items
        h1 == IF self.closed /\ Len(pts) >= 3
              THEN [h EXCEPT ![self.points].items = InsertAt(pts, Len(pts), pointRef)]
              ELSE LET h2 == [h EXCEPT ![self.points].items = Append(pts, pointRef)]
                   IN IF Len(pts) + 1 >= 3 THEN _ensure_closed(h2, ref) ELSE h2
    IN [h1 EXCEPT ![ref].update = TRUE]

\* remove_point as PolylineData2D has it: the deletable flag is not looked at.
Polygon_remove_point_unprotected(h, ref, point_id) ==
    LET i == FirstWithId(h, ref, point_id)
        self == h[ref]
        pts == h[self.points].items
    IN IF i = 0 THEN [heap |-> h, ret |-> FALSE]
       ELSE LET rest == RemoveAt(pts, i)
                h1 == [h EXCEPT ![self.points].items = rest]
                h2 == IF Len(rest) < 3 THEN [h1 EXCEPT ![ref].closed = FALSE] ELSE h1
            IN [heap |-> [h2 EXCEPT ![ref].update = TRUE], ret |-> TRUE]

Polygon_remove_point(h, ref, point_id) ==
    LET i == FirstWithId(h, ref, point_id)
        self == h[ref]
        pts == h[self.points].items
    IN IF i = 0 THEN [heap |-> h, ret |-> FALSE]
       ELSE IF ~h[pts[i]].deletable THEN [heap |-> h, ret |-> FALSE]
       ELSE LET rest == RemoveAt(pts, i)
                h1 == [h EXCEPT ![self.points].items = rest]
                h2 == IF Len(rest) < 3
                      THEN LET h3 == [h1 EXCEPT ![ref].closed = FALSE]
                           IN IF Len(rest) > 0 /\ EndsWithClose(h[rest[Len(rest)]].id)
                              THEN [h3 EXCEPT ![self.points].items = SubSeq(rest, 1, Len(rest) - 1)]
                              ELSE h3
                      ELSE _ensure_closed(h1, ref)
            IN [heap |-> [h2 EXCEPT ![ref].update = TRUE], ret |-> TRUE]

\* plot.add_point / plot.remove_point dispatched on the object's class.
Shape_add_point(h, ref, pointRef) ==
    IF IsPolygon(h[ref]) THEN Polygon_add_point(h, ref, pointRef)
    ELSE Polyline_add_point(h, ref, pointRef)

Shape_remove_point(h, ref, point_id) ==
    IF IsPolygon(h[ref]) THEN Polygon_remove_point(h, ref, point_id)
    ELSE Polyline_remove_point(h, ref, point_id)

(***************************************************************************)
(* Dicts (insertion ordered).                                              *)
(***************************************************************************)
DictKeys(d) == {d[i].key : i \in 1..Len(d)}
DictIndex(d, k) == CHOOSE i \in 1..Len(d) : d[i].key = k
\* d.get(k)
DictGet(d, k) == IF k \in DictKeys(d) THEN d[DictIndex(d, k)].ref ELSE NoRef
\* d[k] = ref : an existing key keeps its position
DictSet(d, k, ref) ==
    IF k \in DictKeys(d)
    THEN [d EXCEPT ![DictIndex(d, k)].ref = ref]
    ELSE Append(d, [key |-> k, ref |-> ref])
\* del d[k]
DictDel(d, k) == RemoveAt(d, DictIndex(d, k))

(***************************************************************************)
(* Contents of plots and of whole dicts, as values (update flags left      *)
(* out): what the claims compare.                                          *)
(***************************************************************************)
PointValue(p) ==
    [id |-> p.id, x |-> p.x, y |-> p.y, color |-> p.color, deletable |-> p.deletable]

PlotValue(h, ref) ==
    LET plot == h[ref]
    IN IF IsPoint(plot)
       THEN [id |-> plot.id, kind |-> plot.type, color |-> plot.color,
             points |-> <<PointValue(plot)>>, closed |-> FALSE]
       ELSE LET items == h[plot.points].items
            IN [id |-> plot.id, kind |-> plot.type, color |-> plot.color,
                points |-> [i \in 1..Len(items) |-> PointValue(h[items[i]])],
                closed |-> IF IsPolygon(plot) THEN plot.closed ELSE FALSE]

DictValue(h, d) == [i \in 1..Len(d) |-> [key |-> d[i].key, plot |-> PlotValue(h, d[i].ref)]]

(***************************************************************************)
(* Canvas2DPlotData.  A store state is a record                            *)
(*   [heap, plots, undo, redo, emits, seen, sync]                          *)
(* where emits counts the data_changed signals emitted during the call and *)
(* seen lists the store contents a slot connected to the signal saw, and   *)
(* sync is the state of a renderer connected to it, when there is one.     *)
(***************************************************************************)
\* A filter that returns the plots that are up to date.
get_plots_to_update_inverted(s) ==
    LET refs == [i \in 1..Len(s.plots) |-> s.plots[i].ref]
        Stale(r) == ~s.heap[r].update
    IN SelectSeq(refs, Stale)

\* [plot for plot in self._plots.values() if plot.update]
get_plots_to_update(s) ==
    LET refs == [i \in 1..Len(s.plots) |-> s.plots[i].ref]
        Dirty(r) == s.heap[r].update
    IN SelectSeq(refs, Dirty)

\* for plot in self._plots.values(): plot.update = False
mark_all_updated(s) ==
    LET refs == {s.plots[i].ref : i \in 1..Len(s.plots)}
    IN [s EXCEPT !.heap = [a \in 1..Len(s.heap) |->
                              IF a \in refs THEN [s.heap[a] EXCEPT !.update = FALSE]
                              ELSE s.heap[a]]]

\* A renderer that keeps in step with the store by the update flags alone, as
\* Canvas2DQWidget.update does: at a notification it takes get_plots_to_update(),
\* renders those plots, forgets the plots that are gone and calls
\* mark_all_updated().  rendered is what it holds, as [key, plot]; missed
\* records that a plot of the store was left out although what is held for
\* its id is not its content now, or nothing is held for it.
incremental_sync(s) ==
    LET dirty == get_plots_to_update(s)
        dirtyKeys == {s.heap[dirty[k]].id : k \in 1..Len(dirty)}
        now == {DictValue(s.heap, s.plots)[i] : i \in 1..Len(s.plots)}
        kept == {r \in s.sync.rendered : r.key \notin dirtyKeys /\ r.key \in DictKeys(s.plots)}
        stale == {n \in now : n.key \notin dirtyKeys /\ n \notin s.sync.rendered}
    IN [mark_all_updated(s) EXCEPT
           !.sync = [on |-> TRUE,
                     rendered |-> kept \cup {n \in now : n.key \in dirtyKeys},
                     missed |-> s.sync.missed \/ stale # {}]]

\* self.data_changed.emit(): slots run at once and see the store as it is now
Emit(s) ==
    LET s1 == [s EXCEPT !.emits = @ + 1, !.seen = Append(@, DictValue(s.heap, s.plots))]
    IN IF s.sync.on THEN incremental_sync(s1) ELSE s1

\* [PointData2D(p.id, p.x, p.y, p.color, p.deletable, False) for p in plot.points]
CopyPoints(h, items) ==
    LET n == Len(items)
    IN [heap |-> h \o [i \in 1..n |->
                          LET p == h[items[i]]
                          IN PointData2D(p.id, p.x, p.y, p.color, p.deletable, FALSE)],
        refs |-> [i \in 1..n |-> Len(h) + i]]

\* A shallow copy of the dict: the entry refers to the plot object itself.
CopyPlot_shallow(h, ref) == [heap |-> h, ref |-> ref]

\* One iteration of the copying loop: the isinstance chain.
CopyPlot(h, ref) ==
    LET plot == h[ref]
        Shape(l) == IF IsPolyline(plot)
                    THEN PolylineData2D(l.heap, plot.id, l.ref, plot.color, FALSE)
                    ELSE PolygonData2D(l.heap, plot.id, l.ref, plot.color, FALSE)
        PointsCopy(pc) == Shape(Alloc(pc.heap, List(pc.refs)))
    IN IF IsPoint(plot)
       THEN Alloc(h, PointData2D(plot.id, plot.x, plot.y, plot.color, plot.deletable, FALSE))
       ELSE PointsCopy(CopyPoints(h, h[plot.points].items))

\* The copying loop over self._plots.items(): the new dict and the new heap.
RECURSIVE CopyLoop(_, _, _, _)
CopyLoop(h, d, i, acc) ==
    IF i > Len(d) THEN [heap |-> h, dict |-> acc]
    ELSE LET Rest(c) == CopyLoop(c.heap, d, i + 1, Append(acc, [key |-> d[i].key, ref |-> c.ref]))
         IN Rest(CopyPlot(h, d[i].ref))

CopyState(h, d) == CopyLoop(h, d, 1, <<>>)

\* A limit that drops the newest entry instead of the oldest.
LimitUndoStack_newest(st) ==
    IF Len(st) > MaxUndoDepth THEN SubSeq(st, 1, Len(st) - 1) ELSE st

\* A stack that is never trimmed.
LimitUndoStack_unbounded(st) == st

\* self._undo_stack.pop(0) when the stack is longer than the limit
LimitUndoStack(st) == IF Len(st) > MaxUndoDepth THEN Tail(st) ELSE st

\* A save that leaves the redo stack as it is.
_save_state_for_undo_keeping_redo(s) ==
    LET Push(state_copy) ==
            [s EXCEPT !.heap = state_copy.heap,
                      !.undo = LimitUndoStack(Append(s.undo, state_copy.dict))]
    IN Push(CopyState(s.heap, s.plots))

_save_state_for_undo(s) ==
    LET Push(state_copy) ==
            [s EXCEPT !.heap = state_copy.heap,
                      !.undo = LimitUndoStack(Append(s.undo, state_copy.dict)),
                      !.redo = <<>>]
    IN Push(CopyState(s.heap, s.plots))

\* An add_plot that emits before the plot is in the dict.
add_plot_emitting_first(s, ref) ==
    LET Insert(s1) == [s1 EXCEPT !.plots = DictSet(@, s1.heap[ref].id, ref),
                                 !.heap = [@ EXCEPT ![ref].update = TRUE]]
    IN Insert(Emit(_save_state_for_undo(s)))

add_plot(s, ref) ==
    LET Insert(s1) == [s1 EXCEPT !.plots = DictSet(@, s1.heap[ref].id, ref),
                                 !.heap = [@ EXCEPT ![ref].update = TRUE]]
    IN Emit(Insert(_save_state_for_undo(s)))

\* A remove_plot that saves before it looks the id up.
remove_plot_saving_first(s, plot_id) ==
    LET Delete(s1) ==
            IF plot_id \in DictKeys(s1.plots)
            THEN [s |-> Emit([s1 EXCEPT !.plots = DictDel(@, plot_id)]), ret |-> TRUE]
            ELSE [s |-> s1, ret |-> FALSE]
    IN Delete(_save_state_for_undo(s))

remove_plot(s, plot_id) ==
    IF plot_id \in DictKeys(s.plots)
    THEN LET Delete(s1) == Emit([s1 EXCEPT !.plots = DictDel(@, plot_id)])
         IN [s |-> Delete(_save_state_for_undo(s)), ret |-> TRUE]
    ELSE [s |-> s, ret |-> FALSE]

get_plot(s, plot_id) == DictGet(s.plots, plot_id)

\* A restore that leaves the update flags as the copies have them.
MarkAllForUpdate_none(h, d) == h

\* for plot in self._plots.values(): plot.update = True
MarkAllForUpdate(h, d) ==
    LET refs == {d[i].ref : i \in 1..Len(d)}
    IN [a \in 1..Len(h) |-> IF a \in refs THEN [h[a] EXCEPT !.update = TRUE] ELSE h[a]]

store_undo(s) ==
    IF s.undo = <<>> THEN [s |-> s, ret |-> FALSE]
    ELSE LET previous_state == s.undo[Len(s.undo)]
             Restore(current_state) ==
                 [s EXCEPT !.heap = MarkAllForUpdate(current_state.heap, previous_state),
                           !.redo = Append(@, current_state.dict),
                           !.undo = SubSeq(@, 1, Len(@) - 1),
                           !.plots = previous_state]
         IN [s |-> Emit(Restore(CopyState(s.heap, s.plots))), ret |-> TRUE]

store_redo(s) ==
    IF s.redo = <<>> THEN [s |-> s, ret |-> FALSE]
    ELSE LET next_state == s.redo[Len(s.redo)]
             Restore(current_state) ==
                 [s EXCEPT !.heap = MarkAllForUpdate(current_state.heap, next_state),
                           !.undo = Append(@, current_state.dict),
                           !.redo = SubSeq(@, 1, Len(@) - 1),
                           !.plots = next_state]
         IN [s |-> Emit(Restore(CopyState(s.heap, s.plots))), ret |-> TRUE]

store_clear(s) ==
    LET ClearPlots(s1) == Emit([s1 EXCEPT !.plots = <<>>])
    IN ClearPlots(_save_state_for_undo(s))

save_state_for_undo(s) == _save_state_for_undo(s)

(***************************************************************************)
(* Canvas2DQViewModel                                                      *)
(***************************************************************************)
DefaultColor(ptype) == IF ptype = POINT THEN "r" ELSE IF ptype = POLYLINE THEN "b" ELSE "g"
ClassOf(ptype) ==
    IF ptype = POINT THEN "PointData2D"
    ELSE IF ptype = POLYLINE THEN "PolylineData2D" ELSE "PolygonData2D"

\* PolylineData2D(id, color="b") / PolygonData2D(id, color="g"): points = []
NewShape(h, ptype, id) ==
    LET l == Alloc(h, List(<<>>))
    IN IF ptype = POLYLINE
       THEN PolylineData2D(l.heap, id, l.ref, DefaultColor(ptype), TRUE)
       ELSE PolygonData2D(l.heap, id, l.ref, DefaultColor(ptype), TRUE)

\* The POLYLINE / POLYGON branch of add_point once the shape was looked up.
AddToShape(s, shape, ptype, u, x, y) ==
    IF shape # NoRef /\ s.heap[shape].cls = ClassOf(ptype)
    THEN LET Add(s1, point) ==
                 Emit([s1 EXCEPT !.heap = Shape_add_point(point.heap, shape, point.ref)])
             Saved(s1) ==
                 Add(s1, Alloc(s1.heap, PointData2D(MkId(POINT, u + 1), x, y,
                                                    s1.heap[shape].color, TRUE, TRUE)))
         IN [s |-> Saved(save_state_for_undo(s)), uuid |-> u + 1]
    ELSE [s |-> s, uuid |-> u]

\* add_point(x, y): the store state, _current_plot_id and the uuid count after.
vm_add_point(s, ptype, cur, u, x, y) ==
    IF ptype = POINT
    THEN LET AddNew(point) == add_plot([s EXCEPT !.heap = point.heap], point.ref)
         IN [s |-> AddNew(Alloc(s.heap, PointData2D(MkId(POINT, u + 1), x, y, "r", TRUE, TRUE))),
             cur |-> cur, uuid |-> u + 1]
    ELSE LET create == (cur = NoId)
             id == IF create THEN MkId(ptype, u + 1) ELSE cur
             u1 == IF create THEN u + 1 ELSE u
             AddNew(shape) == add_plot([s EXCEPT !.heap = shape.heap], shape.ref)
             Extend(s1) == AddToShape(s1, get_plot(s1, id), ptype, u1, x, y)
             Result(r) == [s |-> r.s, cur |-> id, uuid |-> r.uuid]
         IN Result(Extend(IF create THEN AddNew(NewShape(s.heap, ptype, id)) ELSE s))

\* Indices of the points of a shape that delete_point_near would delete.
PointHits(h, ref, x, y, threshold) ==
    LET items == Items(h, ref)
    IN {j \in 1..Len(items) :
           h[items[j]].deletable /\ distance_to_within(h[items[j]], x, y, threshold)}

\* Whether the scan of delete_point_near stops at this plot.
PlotHit(h, ref, x, y, threshold) ==
    IF IsPoint(h[ref])
    THEN h[ref].deletable /\ distance_to_within(h[ref], x, y, threshold)
    ELSE PointHits(h, ref, x, y, threshold) # {}

\* delete_point_near that takes the last match of the scan, not the first.
vm_delete_point_near_last(s, x, y, threshold) ==
    LET hits == {i \in 1..Len(s.plots) : PlotHit(s.heap, s.plots[i].ref, x, y, threshold)}
        Last(S) == CHOOSE j \in S : \A k \in S : k <= j
    IN IF hits = {} THEN [s |-> s, ret |-> FALSE]
       ELSE LET ref == s.plots[Last(hits)].ref
            IN IF IsPoint(s.heap[ref])
               THEN [s |-> remove_plot(s, s.heap[ref].id).s, ret |-> TRUE]
               ELSE LET j == Last(PointHits(s.heap, ref, x, y, threshold))
                        point_id == s.heap[Items(s.heap, ref)[j]].id
                        Remove(s1) ==
                            Emit([s1 EXCEPT !.heap = Shape_remove_point(@, ref, point_id).heap])
                    IN [s |-> Remove(save_state_for_undo(s)), ret |-> TRUE]

\* delete_point_near that drops a shape left with fewer than 2 points.
vm_delete_point_near_pruning(s, x, y, threshold) ==
    LET hits == {i \in 1..Len(s.plots) : PlotHit(s.heap, s.plots[i].ref, x, y, threshold)}
    IN IF hits = {} THEN [s |-> s, ret |-> FALSE]
       ELSE LET ref == s.plots[Min(hits)].ref
            IN IF IsPoint(s.heap[ref])
               THEN [s |-> remove_plot(s, s.heap[ref].id).s, ret |-> TRUE]
               ELSE LET j == Min(PointHits(s.heap, ref, x, y, threshold))
                        point_id == s.heap[Items(s.heap, ref)[j]].id
                        Remove(s1) ==
                            Emit([s1 EXCEPT !.heap = Shape_remove_point(@, ref, point_id).heap])
                        Prune(s1) ==
                            IF Len(Items(s1.heap, ref)) < 2
                            THEN remove_plot(s1, s1.heap[ref].id).s ELSE s1
                    IN [s |-> Prune(Remove(save_state_for_undo(s))), ret |-> TRUE]

vm_delete_point_near(s, x, y, threshold) ==
    LET hits == {i \in 1..Len(s.plots) : PlotHit(s.heap, s.plots[i].ref, x, y, threshold)}
    IN IF hits = {} THEN [s |-> s, ret |-> FALSE]
       ELSE LET ref == s.plots[Min(hits)].ref
            IN IF IsPoint(s.heap[ref])
               THEN [s |-> remove_plot(s, s.heap[ref].id).s, ret |-> TRUE]
               ELSE LET j == Min(PointHits(s.heap, ref, x, y, threshold))
                        point_id == s.heap[Items(s.heap, ref)[j]].id
                        Remove(s1) ==
                            Emit([s1 EXCEPT !.heap = Shape_remove_point(@, ref, point_id).heap])
                    IN [s |-> Remove(save_state_for_undo(s)), ret |-> TRUE]

(***************************************************************************)
(* The state machine.                                                      *)
(***************************************************************************)
Range(f) == {f[i] : i \in DOMAIN f}

Cur == [heap |-> heap, plots |-> plots, undo |-> undo_stack, redo |-> redo_stack,
        emits |-> 0, seen |-> <<>>, sync |-> last.sync]

\* Addresses reachable from the store and its history: what CPython keeps.
Reachable(h, dicts) ==
    LET plotRefs == UNION {{d[i].ref : i \in 1..Len(d)} : d \in dicts}
        listRefs == {h[r].points : r \in {q \in plotRefs : ~IsPoint(h[q])}}
        pointRefs == UNION {Range(h[l].items) : l \in listRefs}
    IN plotRefs \cup listRefs \cup pointRefs

\* CPython frees an object once nothing refers to it: its address stays
\* unused from then on.
Free == [cls |-> "free"]

Commit(s) ==
    /\ \E live \in {Reachable(s.heap, {s.plots} \cup Range(s.undo) \cup Range(s.redo))} :
          heap' = [a \in 1..Len(s.heap) |-> IF a \in live THEN s.heap[a] ELSE Free]
    /\ plots' = s.plots
    /\ undo_stack' = s.undo
    /\ redo_stack' = s.redo

StoreValue == DictValue(heap, plots)
StackValue(st) == [i \in 1..Len(st) |-> DictValue(heap, st[i])]

\* What a call returned (FALSE for a method returning None) and how many
\* data_changed signals it emitted.
Call(op, ret, emits) ==
    [op |-> op, ret |-> ret, emits |-> emits, seen |-> <<>>,
     sync |-> [on |-> FALSE, rendered |-> {}, missed |-> FALSE]]

NoTrip == [phase |-> "off", n |-> 0, k |-> 0, j |-> 0, final |-> <<>>]

\* Round-trip bookkeeping: n mutating calls, then k undos, then j redos.
TripStep(tr, kind, after) ==
    IF kind = "none" THEN tr
    ELSE IF kind = "op" /\ tr.phase = "ops"
    THEN [tr EXCEPT !.n = @ + 1, !.final = after]
    ELSE IF kind = "undo" /\ tr.phase \in {"ops", "undo"} /\ tr.k < tr.n
    THEN [tr EXCEPT !.phase = "undo", !.k = @ + 1]
    ELSE IF kind = "redo" /\ tr.phase \in {"undo", "redo"} /\ tr.k = tr.n /\ tr.j < tr.n
    THEN [tr EXCEPT !.phase = "redo", !.j = @ + 1]
    ELSE NoTrip

\* A call counts as mutating when it changed the plots or pushed a snapshot.
Mutated(s) ==
    \/ DictValue(s.heap, s.plots) # StoreValue
    \/ Len(s.undo) # Len(undo_stack)
    \/ s.emits > 0

Before == [plots |-> StoreValue, undo |-> Len(undo_stack), redo |-> Len(redo_stack)]

ObserveCall(call, s, kind) ==
    /\ last' = [call EXCEPT !.seen = s.seen, !.sync = s.sync]
    /\ pre' = Before
    /\ trip' = TripStep(trip, kind, DictValue(s.heap, s.plots))
    /\ steps' = IF kind = "none" THEN steps ELSE steps + 1

\* a call made on the editor directly: nothing around it changes
Observe(call, s, kind) == ObserveCall(call, s, kind) /\ UNCHANGED gui

\* ---- what is around the editor, as constructed ----
Workers == {"GitBranchLoaderThread", "GitBranchChangerThread", "ScriptExecutorThread"}
\* self._drag_start_pos = None
NoPos == <<>>

\* One axis of the view box: the range [lo/den, hi/den], kept in lowest terms
\* (the code computes with floats; the model computes the same expressions on
\* fractions).
RECURSIVE Gcd(_, _)
Gcd(a, b) == IF b = 0 THEN a ELSE Gcd(b, a % b)
Range1D(lo, hi, den) ==
    LET Abs(n) == IF n < 0 THEN -n ELSE n
        g == Gcd(Gcd(Abs(lo), Abs(hi)), den)
    IN [lo |-> lo \div g, hi |-> hi \div g, den |-> den \div g]

Init ==
    /\ heap = EmptyHeap
    /\ plots = <<>>
    /\ undo_stack = <<>>
    /\ redo_stack = <<>>
    /\ current_plot_type = POINT
    /\ current_plot_id = NoId
    /\ uuid = 0
    /\ steps = 0
    /\ last = Call("init", FALSE, 0)
    /\ pre = [plots |-> <<>>, undo |-> 0, redo |-> 0]
    /\ trip = [NoTrip EXCEPT !.phase = "ops"]
    \* no thread has been created yet
    /\ worker = [t \in Workers |->
                    [pc |-> "none", outcome |-> "none", success |-> 0, error |-> 0]]
    \* no loading_changed emitted yet, no request made, nothing queued
    /\ runner = [loading |-> <<>>, emitted |-> <<>>, threads |-> [t \in Workers |-> 0],
                 queue |-> <<>>]
    \* self._is_dragging = False; self._drag_start_pos = None; no event yet
    /\ handler = [is_dragging |-> FALSE, drag_start_pos |-> NoPos,
                  n |-> 0, event |-> "none", consumed |-> FALSE, calls |-> <<>>]
    \* setXRange(0, 100); setYRange(0, 100)
    /\ view = [x |-> Range1D(0, 100, 1), y |-> Range1D(0, 100, 1)]
    \* self._plot_items = {}; update() has not run yet
    /\ widget = [plot_items |-> {}, ended |-> "none"]

\* ---- GaDPPRunnerQWidget: what the algorithm is handed ----
\* [[point.x, point.y] for point in points], then the last pair dropped when
\* it equals the first
RingOf(h, ref) ==
    LET items == Items(h, ref)
        ring == [k \in 1..Len(items) |-> <<h[items[k]].x, h[items[k]].y>>]
    IN IF ring # <<>> /\ ring[1] = ring[Len(ring)] THEN SubSeq(ring, 1, Len(ring) - 1)
       ELSE ring

_extract_boundary(s) ==
    LET found == {i \in 1..Len(s.plots) :
                     /\ s.heap[s.plots[i].ref].type = POLYGON
                     /\ Len(Items(s.heap, s.plots[i].ref)) >= 3}
    IN IF found = {} THEN <<>> ELSE RingOf(s.heap, s.plots[Min(found)].ref)

\* The return value None is written <<>>.
_extract_obstacles(s) ==
    LET refs == [i \in 1..Len(s.plots) |-> s.plots[i].ref]
        IsPolygonPlot(r) == s.heap[r].type = POLYGON
        polygons == SelectSeq(refs, IsPolygonPlot)
        Kept(r) == Len(Items(s.heap, r)) >= 3 /\ RingOf(s.heap, r) # <<>>
        rest == IF Len(polygons) > 1 THEN SelectSeq(Tail(polygons), Kept) ELSE <<>>
    IN [k \in 1..Len(rest) |-> RingOf(s.heap, rest[k])]

\* ---- Canvas2DQViewModel API ----
Canvas_add_point(x, y) ==
    \E r \in {vm_add_point(Cur, current_plot_type, current_plot_id, uuid, x, y)} :
       /\ Commit(r.s)
       /\ current_plot_id' = r.cur
       /\ uuid' = r.uuid
       /\ ObserveCall(Call("add_point", FALSE, r.s.emits), r.s,
                      IF Mutated(r.s) THEN "op" ELSE "none")
       /\ UNCHANGED current_plot_type

AddPoint(x, y) == Canvas_add_point(x, y) /\ UNCHANGED gui

Canvas_delete_point_near(x, y, threshold) ==
    \E r \in {vm_delete_point_near(Cur, x, y, threshold)} :
       /\ Commit(r.s)
       /\ ObserveCall(Call("delete_point_near", r.ret, r.s.emits), r.s,
                      IF Mutated(r.s) THEN "op" ELSE "none")
       /\ UNCHANGED <<current_plot_type, current_plot_id, uuid>>

DeletePointNear(x, y, threshold) == Canvas_delete_point_near(x, y, threshold) /\ UNCHANGED gui

Undo ==
    \E r \in {store_undo(Cur)} :
       /\ Commit(r.s)
       /\ Observe(Call("undo", r.ret, r.s.emits), r.s,
                  IF r.ret THEN "undo" ELSE "none")
       /\ UNCHANGED <<current_plot_type, current_plot_id, uuid>>

Redo ==
    \E r \in {store_redo(Cur)} :
       /\ Commit(r.s)
       /\ Observe(Call("redo", r.ret, r.s.emits), r.s,
                  IF r.ret THEN "redo" ELSE "none")
       /\ UNCHANGED <<current_plot_type, current_plot_id, uuid>>

\* A setter that keeps the shape in progress.
SetCurrentPlotType_keeping(value) ==
    /\ current_plot_type' = value
    /\ UNCHANGED <<heap, plots, undo_stack, redo_stack, current_plot_id, uuid, steps, last,
                   pre, trip, gui>>

SetCurrentPlotType(value) ==
    /\ current_plot_type' = value
    /\ current_plot_id' = NoId
    /\ UNCHANGED <<heap, plots, undo_stack, redo_stack, uuid, steps, last, pre, trip, gui>>

ClearCurrentPlot ==
    /\ current_plot_id' = NoId
    /\ UNCHANGED <<heap, plots, undo_stack, redo_stack, current_plot_type, uuid, steps,
                   last, pre, trip, gui>>

\* ---- Canvas2DPlotData API called directly ----
Clear ==
    \E s \in {store_clear(Cur)} :
       /\ Commit(s)
       /\ Observe(Call("clear", FALSE, s.emits), s, "op")
       /\ UNCHANGED <<current_plot_type, current_plot_id, uuid>>

SaveStateForUndo ==
    \E s \in {save_state_for_undo(Cur)} :
       /\ Commit(s)
       /\ Observe(Call("save_state_for_undo", FALSE, s.emits), s, "op")
       /\ UNCHANGED <<current_plot_type, current_plot_id, uuid>>

RemovePlot(plot_id) ==
    \E r \in {remove_plot(Cur, plot_id)} :
       /\ Commit(r.s)
       /\ Observe(Call("remove_plot", r.ret, r.s.emits), r.s,
                  IF r.ret THEN "op" ELSE "none")
       /\ UNCHANGED <<current_plot_type, current_plot_id, uuid>>

\* add_plot(PointData2D(id, x, y)) by a caller that names the plot itself
ExternalId == MkId("external", 0)
UnknownId == MkId("unknown", 0)

AddPlot(x, y) ==
    \E p \in {Alloc(heap, PointData2D(ExternalId, x, y, "r", TRUE, TRUE))} :
    \E s \in {add_plot([Cur EXCEPT !.heap = p.heap], p.ref)} :
       /\ Commit(s)
       /\ Observe(Call("add_plot", FALSE, s.emits), s, "op")
       /\ UNCHANGED <<current_plot_type, current_plot_id, uuid>>

\* plot.remove_point(point_id) called directly on a shape of the store
RemovePoint(plot_id, point_id) ==
    \E r \in {Shape_remove_point(heap, get_plot(Cur, plot_id), point_id)} :
       /\ Commit([Cur EXCEPT !.heap = r.heap])
       /\ Observe(Call("remove_point", r.ret, 0), [Cur EXCEPT !.heap = r.heap],
                  IF r.ret THEN "op" ELSE "none")
       /\ UNCHANGED <<current_plot_type, current_plot_id, uuid>>

\* Ids of the shapes in the store, and the points of a shape that are not
\* deletable.  A direct remove_point is tried with these and with an id that
\* is not in the shape; deletable points are removed by delete_point_near.
ShapeIds == {plots[i].key : i \in {j \in 1..Len(plots) : ~IsPoint(heap[plots[j].ref])}}
ProtectedIds(plot_id) ==
    LET items == Items(heap, get_plot(Cur, plot_id))
    IN {heap[items[i]].id : i \in {j \in 1..Len(items) : ~heap[items[j]].deletable}}

\* ---- Spec: the editor driven through its whole API ----
DoAddPoint == steps < MaxSteps /\ \E c \in AddCoords : AddPoint(c[1], c[2])
DoDeletePointNear ==
    /\ steps < MaxSteps
    /\ \E c \in HitCoords, t \in Thresholds : DeletePointNear(c[1], c[2], t)
DoUndo == steps < MaxSteps /\ Undo
DoRedo == steps < MaxSteps /\ Redo
DoClear == steps < MaxSteps /\ Clear
DoSaveStateForUndo == steps < MaxSteps /\ SaveStateForUndo
DoRemovePlot ==
    /\ steps < MaxSteps
    /\ \E id \in DictKeys(plots) \cup {UnknownId} : RemovePlot(id)
DoAddPlot == steps < MaxSteps /\ \E c \in AddCoords : AddPlot(c[1], c[2])
DoRemovePoint ==
    /\ steps < MaxSteps
    /\ \E id \in ShapeIds : \E pid \in ProtectedIds(id) \cup {UnknownId} : RemovePoint(id, pid)
DoSetCurrentPlotType == \E v \in PlotData2D : SetCurrentPlotType(v)

Next ==
    \/ DoAddPoint
    \/ DoDeletePointNear
    \/ DoUndo
    \/ DoRedo
    \/ DoClear
    \/ DoSaveStateForUndo
    \/ DoRemovePlot
    \/ DoAddPlot
    \/ DoRemovePoint
    \/ DoSetCurrentPlotType
    \/ ClearCurrentPlot

Spec == Init /\ [][Next]_vars

\* ---- SpecPolygon: the editor used in Polygon mode (Scenario A) ----
PolygonMode == SetCurrentPlotType(POLYGON)
PolygonAddPoint ==
    /\ steps < MaxPolygonSteps
    /\ current_plot_type = POLYGON
    /\ \E c \in AddCoords : AddPoint(c[1], c[2])
PolygonDeletePointNear ==
    /\ steps < MaxPolygonSteps
    /\ \E c \in HitCoords, t \in Thresholds : DeletePointNear(c[1], c[2], t)
PolygonUndo == steps < MaxPolygonSteps /\ Undo
PolygonRedo == steps < MaxPolygonSteps /\ Redo
PolygonRemovePoint ==
    /\ \E id \in ShapeIds : \E pid \in ProtectedIds(id) : RemovePoint(id, pid)
    /\ steps' <= MaxPolygonSteps

NextPolygon ==
    \/ PolygonMode
    \/ PolygonAddPoint
    \/ PolygonDeletePointNear
    \/ PolygonUndo
    \/ PolygonRedo
    \/ PolygonRemovePoint

SpecPolygon == Init /\ [][NextPolygon]_vars

\* ---- SpecHistory: one mutating store call after another, then undo ----
HistoryAddPlot ==
    /\ steps < MaxHistorySteps
    /\ redo_stack = <<>>
    /\ AddPlot(steps, 0)
HistoryUndo == Undo

NextHistory == HistoryAddPlot \/ HistoryUndo

SpecHistory == Init /\ [][NextHistory]_vars

\* ---- Canvas2DInteractionHandler: the events of the plot widget ----
\* [lo + pan, hi + pan] with pan = delta * (hi - lo) / size
PanAxis(r, delta, size) ==
    Range1D(r.lo * size + delta * (r.hi - r.lo), r.hi * size + delta * (r.hi - r.lo),
            r.den * size)

\* A zoom about the middle of the range, wherever the cursor is.
ZoomAxis_centered(r, c, tenths) ==
    LET mid == 10 * (r.lo + r.hi)
        half == (r.hi - r.lo) * tenths
    IN Range1D(mid - half, mid + half, 20 * r.den)

\* [center - width / 2 + offset, center + width / 2 + offset] with
\* center = (lo + hi) / 2, width = (hi - lo) * factor and
\* offset = (c - center) * (1 - factor), for factor = tenths / 10
ZoomAxis(r, c, tenths) ==
    LET mid == 10 * (r.lo + r.hi)
        half == (r.hi - r.lo) * tenths
        offset == (2 * c * r.den - r.lo - r.hi) * (10 - tenths)
    IN Range1D(mid - half + offset, mid + half + offset, 20 * r.den)

\* What an event leaves in the handler: its kind, the value eventFilter
\* returned and the view model calls it made.
Handled(h, event, consumed, calls) ==
    [h EXCEPT !.n = @ + 1, !.event = event, !.consumed = consumed, !.calls = calls]

\* A press whose plain left click does not restart the drag tracking.
MousePress_not_tracking(x, y, button, ctrl) ==
    IF button = "left" /\ ctrl
    THEN /\ Canvas_delete_point_near(x, y, ClickThreshold)
         /\ handler' = Handled(handler, "press", last'.ret, <<"delete_point_near">>)
         /\ UNCHANGED <<worker, runner, view, widget>>
    ELSE IF button = "left"
    THEN /\ Canvas_add_point(x, y)
         /\ handler' = Handled(handler, "press", TRUE, <<"add_point">>)
         /\ UNCHANGED <<worker, runner, view, widget>>
    ELSE /\ handler' = Handled(handler, "press", FALSE, <<>>)
         /\ UNCHANGED <<core, worker, runner, view, widget>>

\* A press whose Ctrl+click is consumed whatever delete_point_near returned.
MousePress_consuming(x, y, button, ctrl) ==
    IF button = "left" /\ ctrl
    THEN /\ Canvas_delete_point_near(x, y, ClickThreshold)
         /\ handler' = Handled(handler, "press", TRUE, <<"delete_point_near">>)
         /\ UNCHANGED <<worker, runner, view, widget>>
    ELSE IF button = "left"
    THEN /\ Canvas_add_point(x, y)
         /\ handler' = Handled([handler EXCEPT !.is_dragging = FALSE,
                                               !.drag_start_pos = <<x, y>>],
                               "press", TRUE, <<"add_point">>)
         /\ UNCHANGED <<worker, runner, view, widget>>
    ELSE /\ handler' = Handled(handler, "press", FALSE, <<>>)
         /\ UNCHANGED <<core, worker, runner, view, widget>>

\* _handle_mouse_event, MouseButtonPress at view coordinates (x, y)
MousePress(x, y, button, ctrl) ==
    IF button = "left" /\ ctrl
    THEN /\ Canvas_delete_point_near(x, y, ClickThreshold)
         /\ handler' = Handled(handler, "press", last'.ret, <<"delete_point_near">>)
         /\ UNCHANGED <<worker, runner, view, widget>>
    ELSE IF button = "left"
    THEN /\ Canvas_add_point(x, y)
         /\ handler' = Handled([handler EXCEPT !.is_dragging = FALSE,
                                               !.drag_start_pos = <<x, y>>],
                               "press", TRUE, <<"add_point">>)
         /\ UNCHANGED <<worker, runner, view, widget>>
    ELSE /\ handler' = Handled(handler, "press", FALSE, <<>>)
         /\ UNCHANGED <<core, worker, runner, view, widget>>

\* A move that counts a displacement of exactly the threshold as a drag.
MouseMove_inclusive(x, y, left_held, size) ==
    LET tracking == left_held /\ handler.drag_start_pos # NoPos
        dx == x - handler.drag_start_pos[1]
        dy == y - handler.drag_start_pos[2]
    IN /\ IF tracking /\ dx * dx + dy * dy >= DragThreshold * DragThreshold
          THEN /\ handler' = Handled([handler EXCEPT !.is_dragging = TRUE,
                                                     !.drag_start_pos = <<x, y>>],
                                     "move", TRUE, <<>>)
               /\ view' = [x |-> PanAxis(view.x, -dx, size[1]),
                           y |-> PanAxis(view.y, dy, size[2])]
          ELSE /\ handler' = Handled(handler, "move", FALSE, <<>>)
               /\ UNCHANGED view
       /\ UNCHANGED <<core, worker, runner, widget>>

\* _handle_mouse_event, MouseMove at view coordinates (x, y); size is the
\* plot widget's width() and height()
MouseMove(x, y, left_held, size) ==
    LET tracking == left_held /\ handler.drag_start_pos # NoPos
        dx == x - handler.drag_start_pos[1]
        dy == y - handler.drag_start_pos[2]
    IN /\ IF tracking /\ dx * dx + dy * dy > DragThreshold * DragThreshold
          THEN /\ handler' = Handled([handler EXCEPT !.is_dragging = TRUE,
                                                     !.drag_start_pos = <<x, y>>],
                                     "move", TRUE, <<>>)
               /\ view' = [x |-> PanAxis(view.x, -dx, size[1]),
                           y |-> PanAxis(view.y, dy, size[2])]
          ELSE /\ handler' = Handled(handler, "move", FALSE, <<>>)
               /\ UNCHANGED view
       /\ UNCHANGED <<core, worker, runner, widget>>

\* A release that ends the drag but keeps the drag start position.
MouseRelease_keeping_start(button) ==
    /\ IF button = "left"
       THEN handler' = Handled([handler EXCEPT !.is_dragging = FALSE], "release", TRUE, <<>>)
       ELSE handler' = Handled(handler, "release", FALSE, <<>>)
    /\ UNCHANGED <<core, worker, runner, view, widget>>

\* _handle_mouse_event, MouseButtonRelease
MouseRelease(button) ==
    /\ IF button = "left"
       THEN handler' = Handled([handler EXCEPT !.is_dragging = FALSE,
                                              !.drag_start_pos = NoPos],
                              "release", TRUE, <<>>)
       ELSE handler' = Handled(handler, "release", FALSE, <<>>)
    /\ UNCHANGED <<core, worker, runner, view, widget>>

\* _handle_wheel_event with angleDelta().y() = delta and the cursor at view
\* coordinates (cx, cy)
Wheel(ctrl, delta, cx, cy) ==
    /\ IF ctrl
       THEN /\ handler' = Handled(handler, "wheel", TRUE, <<>>)
            /\ \E tenths \in {IF delta > 0 THEN 11 ELSE 9} :
                  view' = [x |-> ZoomAxis(view.x, cx, tenths),
                           y |-> ZoomAxis(view.y, cy, tenths)]
       ELSE /\ handler' = Handled(handler, "wheel", FALSE, <<>>)
            /\ UNCHANGED view
    /\ UNCHANGED <<core, worker, runner, widget>>

\* ---- SpecHandler: mouse and wheel events on the canvas ----
MoveCoords == {<<3, 4>>, <<6, 0>>, <<10, 0>>}
WidgetSizes == {<<100, 100>>, <<200, 150>>}
WheelInputs == {<<120, 50, 50>>, <<-120, 0, 100>>, <<0, 30, 0>>}

NextHandler ==
    \/ DoSetCurrentPlotType
    \/ /\ handler.n < MaxEvents
       /\ \E c \in AddCoords : \E button \in {"left", "right"} : \E ctrl \in BOOLEAN :
             MousePress(c[1], c[2], button, ctrl)
    \/ /\ handler.n < MaxEvents
       /\ \E c \in MoveCoords : \E held \in BOOLEAN : \E size \in WidgetSizes :
             MouseMove(c[1], c[2], held, size)
    \/ /\ handler.n < MaxEvents
       /\ \E button \in {"left", "right"} : MouseRelease(button)
    \/ /\ handler.n < MaxEvents
       /\ \E ctrl \in BOOLEAN : \E w \in WheelInputs : Wheel(ctrl, w[1], w[2], w[3])

SpecHandler == Init /\ [][NextHandler]_vars

\* ---- Canvas2DQWidget: the renderer ----
\* Whether _render_plot raises for the plot: _render_polyline and
\* _render_polygon unpack zip(*[...]) into two names, which fails on an empty
\* point list, and _render_polygon adds a list to a tuple when the polygon has
\* 3 points or more.
RenderRaises(h, ref) ==
    /\ ~IsPoint(h[ref])
    /\ \/ Len(Items(h, ref)) = 0
       \/ IsPolygon(h[ref]) /\ Len(Items(h, ref)) >= 3

\* update(): render the plots to update in order, drop the items of plots
\* that are gone, mark all updated.  An exception of _render_plot ends it
\* where it is: the item of the failing plot has been popped, the flags stay.
widget_update(s, plot_items) ==
    LET dirty == get_plots_to_update(s)
        IdOf(k) == s.heap[dirty[k]].id
        failing == {k \in 1..Len(dirty) : RenderRaises(s.heap, dirty[k])}
    IN IF failing = {}
       THEN [heap |-> mark_all_updated(s).heap,
             plot_items |-> (plot_items \cup {IdOf(k) : k \in 1..Len(dirty)})
                               \cap DictKeys(s.plots),
             ended |-> "completed"]
       ELSE [heap |-> s.heap,
             plot_items |-> (plot_items \cup {IdOf(k) : k \in 1..(Min(failing) - 1)})
                               \ {IdOf(Min(failing))},
             ended |-> "raised"]

\* update() as the slot of update_requested, run for the notification that
\* ended the last call
Update ==
    /\ last.emits >= 1
    /\ \E r \in {widget_update(Cur, widget.plot_items)} :
          /\ heap' = r.heap
          /\ widget' = [plot_items |-> r.plot_items, ended |-> r.ended]
    /\ UNCHANGED <<plots, undo_stack, redo_stack, current_plot_type, current_plot_id, uuid,
                   steps, last, pre, trip, worker, runner, handler, view>>

\* ---- SpecRender: the editor with its renderer ----
NextRender ==
    \/ DoSetCurrentPlotType
    \/ DoAddPoint
    \/ DoDeletePointNear
    \/ DoUndo
    \/ Update

SpecRender == Init /\ [][NextRender]_vars

\* ---- SpecWorker: the worker threads of the algorithm runner ----
\* load_branches / change_branch / execute_algorithm: unless a thread of the
\* kind is running, a new thread object (new signals) is created and started.
\* thread.isRunning()
isRunning(w, t) == w[t].pc \notin {"none", "finished"}

\* A request that starts its thread without looking at the one running.
vm_request_unguarded(w, r, t, script_path) ==
    [worker |-> [w EXCEPT ![t] = [pc |-> "run", outcome |-> "none",
                                  success |-> 0, error |-> 0]],
     runner |-> [r EXCEPT !.loading = <<TRUE>>,
                          !.emitted = <<"loading_changed(True)">>,
                          !.threads[t] = @ + 1]]

\* load_branches(), change_branch(name), execute_algorithm(params) for
\* t = the thread class each starts; script_path is FALSE when
\* _create_execution_script returns None.  emitted lists the signals the call
\* emitted, loading is the value of the last loading_changed.
vm_request(w, r, t, script_path) ==
    IF isRunning(w, t) THEN [worker |-> w, runner |-> [r EXCEPT !.emitted = <<>>]]
    ELSE IF t = "ScriptExecutorThread" /\ ~script_path
    THEN [worker |-> w,
          runner |-> [r EXCEPT !.loading = <<FALSE>>,
                               !.emitted = <<"loading_changed(True)", "execution_started",
                                             "execution_error", "loading_changed(False)">>]]
    ELSE [worker |-> [w EXCEPT ![t] = [pc |-> "run", outcome |-> "none",
                                       success |-> 0, error |-> 0]],
          runner |-> [r EXCEPT !.loading = <<TRUE>>,
                               !.emitted = IF t = "ScriptExecutorThread"
                                           THEN <<"loading_changed(True)", "execution_started">>
                                           ELSE <<"loading_changed(True)">>,
                               !.threads[t] = @ + 1]]

\* the thread's run() has ended: its result signal and then its finished
\* signal wait for the main thread
Ended(r, t, signal) ==
    [r EXCEPT !.threads[t] = @ - 1,
              !.queue = @ \o <<[thread |-> t, signal |-> signal],
                               [thread |-> t, signal |-> "finished"]>>]

\* one of the three requests made on the view model
WorkerStart(t) ==
    /\ \E script_path \in BOOLEAN :
       \E s \in {vm_request(worker, runner, t, script_path)} :
          /\ worker' = s.worker
          /\ runner' = s.runner
    /\ UNCHANGED <<core, handler, view, widget>>

\* run(): the subprocess.run(..., check=True) call inside the try block, which
\* returns, raises CalledProcessError or raises another exception
WorkerSubprocess(t, outcome) ==
    /\ worker[t].pc = "run"
    /\ worker' = [worker EXCEPT ![t].pc = outcome, ![t].outcome = outcome]
    /\ UNCHANGED <<core, runner, handler, view, widget>>

\* run(): a statement of the try block between subprocess.run and the emit
\* raises (the branch changer has no such statement)
WorkerBodyRaises(t) ==
    /\ t # "GitBranchChangerThread"
    /\ worker[t].pc = "returned"
    /\ worker' = [worker EXCEPT ![t].pc = "Exception", ![t].outcome = "Exception"]
    /\ UNCHANGED <<core, runner, handler, view, widget>>

\* run(): the last statement of the try block emits the success signal
WorkerEmitResult(t) ==
    /\ worker[t].pc = "returned"
    /\ worker' = [worker EXCEPT ![t].pc = "finished", ![t].success = @ + 1]
    /\ runner' = Ended(runner, t, "success")
    /\ UNCHANGED <<core, handler, view, widget>>

\* An except clause that logs and emits nothing.
WorkerHandleError_silent(t) ==
    /\ worker[t].pc \in {"CalledProcessError", "Exception"}
    /\ worker' = [worker EXCEPT ![t].pc = "finished"]
    /\ runner' = [runner EXCEPT !.threads[t] = @ - 1,
                                !.queue = Append(@, [thread |-> t, signal |-> "finished"])]
    /\ UNCHANGED <<core, handler, view, widget>>

\* run(): either except clause logs and emits error_occurred
WorkerHandleError(t) ==
    /\ worker[t].pc \in {"CalledProcessError", "Exception"}
    /\ worker' = [worker EXCEPT ![t].pc = "finished", ![t].error = @ + 1]
    /\ runner' = Ended(runner, t, "error")
    /\ UNCHANGED <<core, handler, view, widget>>

\* The main thread handles the oldest queued thread signal.  finished runs
\* the lambda that emits loading_changed(False).  branches_loaded reaches
\* GaDPPRunnerQWidget._on_branches_loaded, which refills the branch combo box:
\* each change of its current text calls change_branch, none for an empty
\* list, one for the first item, one more when the old selection is restored.
\* The other signals only set texts.
Deliver ==
    /\ runner.queue # <<>>
    /\ LET e == Head(runner.queue)
           r0 == [runner EXCEPT !.queue = Tail(@)]
           Change(s) == vm_request(s.worker, s.runner, "GitBranchChangerThread", TRUE)
           s0 == [worker |-> worker, runner |-> r0]
       IN \E s \in IF e.signal = "finished"
                   THEN {[s0 EXCEPT !.runner.loading = <<FALSE>>]}
                   ELSE IF e.signal = "success" /\ e.thread = "GitBranchLoaderThread"
                   THEN {s0, Change(s0), Change(Change(s0))}
                   ELSE {s0} :
             /\ worker' = s.worker
             /\ runner' = s.runner
    /\ UNCHANGED <<core, handler, view, widget>>

\* A request comes from the refresh button, the branch combo box or the
\* execute button, which _on_loading_changed disables while loading is True.
NextWorker ==
    \/ Deliver
    \/ \E t \in Workers :
       \/ /\ runner.loading # <<TRUE>>
          /\ Len(runner.queue) < MaxQueued
          /\ WorkerStart(t)
       \/ \E outcome \in {"returned", "CalledProcessError", "Exception"} :
             WorkerSubprocess(t, outcome)
       \/ WorkerBodyRaises(t)
       \/ WorkerEmitResult(t)
       \/ WorkerHandleError(t)

SpecWorker == Init /\ [][NextWorker]_vars

\* The same with progress: the main thread keeps handling queued signals, and
\* every started thread goes on until run() has ended (subprocess.run is
\* taken to come back).
SpecWorkerFair ==
    /\ SpecWorker
    /\ WF_vars(Deliver)
    /\ \A t \in Workers :
          WF_vars(\/ \E outcome \in {"returned", "CalledProcessError", "Exception"} :
                        WorkerSubprocess(t, outcome)
                  \/ WorkerEmitResult(t)
                  \/ WorkerHandleError(t))

\* ---- SpecShape: a caller that also adds points to the shapes directly ----
\* plot.add_point(PointData2D(id, x, y, color, deletable)) on a shape of the
\* store: the caller chooses the deletable flag.
ShapeAddPoint(plot_id, x, y, deletable) ==
    \E p \in {Alloc(heap, PointData2D(MkId(POINT, uuid + 1), x, y, "b", deletable, TRUE))} :
    \E s \in {[Cur EXCEPT !.heap = Shape_add_point(p.heap, get_plot(Cur, plot_id), p.ref)]} :
       /\ Commit(s)
       /\ uuid' = uuid + 1
       /\ Observe(Call("shape_add_point", FALSE, 0), s, "op")
       /\ UNCHANGED <<current_plot_type, current_plot_id>>

DoShapeAddPoint ==
    /\ steps < MaxSteps
    /\ \E id \in ShapeIds : \E c \in AddCoords : \E d \in BOOLEAN : ShapeAddPoint(id, c[1], c[2], d)

NextShape ==
    \/ DoSetCurrentPlotType
    \/ DoAddPoint
    \/ DoShapeAddPoint
    \/ DoRemovePoint

SpecShape == Init /\ [][NextShape]_vars

\* ---- SpecSync: the store with a renderer that marks the plots updated ----
MarkAllUpdated ==
    \E s \in {mark_all_updated(Cur)} :
       /\ Commit(s)
       /\ Observe(Call("mark_all_updated", FALSE, s.emits), s, "none")
       /\ UNCHANGED <<current_plot_type, current_plot_id, uuid>>

NextSync ==
    \/ DoSetCurrentPlotType
    \/ DoAddPoint
    \/ DoAddPlot
    \/ DoUndo
    \/ DoRedo
    \/ MarkAllUpdated

SpecSync == Init /\ [][NextSync]_vars

\* ---- SpecDeep: one polygon edited at length, with clear and undo ----
DeepHits == {<<0, 0, 0>>, <<1, 1, 1>>}
DeepMode == SetCurrentPlotType(POLYGON)
DeepAddPoint ==
    /\ steps < MaxDeepSteps
    /\ uuid <= MaxDeepPoints
    /\ current_plot_type = POLYGON
    /\ \E c \in AddCoords : AddPoint(c[1], c[2])
DeepDeletePointNear ==
    /\ steps < MaxDeepSteps
    /\ \E c \in DeepHits : DeletePointNear(c[1], c[2], c[3])
DeepClear == steps < MaxDeepSteps /\ Clear
DeepUndo == steps < MaxDeepSteps /\ Undo

NextDeep ==
    \/ DeepMode
    \/ DeepAddPoint
    \/ DeepDeletePointNear
    \/ DeepClear
    \/ DeepUndo

SpecDeep == Init /\ [][NextDeep]_vars

\* ---- SpecIncremental: the editor with a renderer connected to data_changed
\* before the first call, kept in step by the update flags ----
NextIncremental ==
    \/ /\ last.op = "init"
       /\ ~last.sync.on
       /\ last' = [last EXCEPT !.sync.on = TRUE]
       /\ UNCHANGED <<heap, plots, undo_stack, redo_stack, current_plot_type,
                      current_plot_id, uuid, steps, pre, trip, gui>>
    \/ DoSetCurrentPlotType
    \/ DoAddPoint
    \/ DoDeletePointNear
    \/ DoUndo
    \/ DoRedo

SpecIncremental == Init /\ [][NextIncremental]_vars

\* ---- SpecRedo: one add_plot after another; once the history is within
\* MaxRedoDepth of full, undo and redo too, and add_plot again when the undo
\* stack is one short of full ----
NextRedo ==
    \/ /\ steps < MaxHistorySteps
       /\ last.op \in {"init", "add_plot"} \/ Len(undo_stack) = MaxUndoDepth - 1
       /\ AddPlot(steps, 0)
    \/ /\ steps < MaxHistorySteps
       /\ Len(undo_stack) + Len(redo_stack) >= MaxUndoDepth - MaxRedoDepth
       /\ Undo
    \/ /\ steps < MaxHistorySteps
       /\ Len(undo_stack) + Len(redo_stack) >= MaxUndoDepth - MaxRedoDepth
       /\ Redo

SpecRedo == Init /\ [][NextRedo]_vars

\* ---- SpecDelete: Point plots and polygons built and picked apart by
\* add_point and delete_point_near alone, nothing undone ----
NextDelete ==
    \/ \E v \in {POINT, POLYGON} : SetCurrentPlotType(v)
    \/ /\ steps < MaxDeleteSteps
       /\ uuid < MaxDeleteSteps
       /\ \E c \in AddCoords : AddPoint(c[1], c[2])
    \/ steps < MaxDeleteSteps /\ \E c \in DeepHits : DeletePointNear(c[1], c[2], c[3])

SpecDelete == Init /\ [][NextDelete]_vars

(***************************************************************************)
(* Properties.                                                             *)
(***************************************************************************)
Top(st) == st[Len(st)]
PolygonsOf(sv) == {sv[i].plot : i \in {j \in 1..Len(sv) : sv[j].plot.kind = POLYGON}}
PointIds(pv) == {pv.points[k].id : k \in 1..Len(pv.points)}
NonDeletableIds(pv) ==
    {pv.points[k].id : k \in {j \in 1..Len(pv.points) : ~pv.points[j].deletable}}
ShapeModes == {POLYLINE, POLYGON}
\* a call that changed the store or its history has just been made
Stepped == steps' = steps + 1

\* The closure rule on the contents of one polygon.
ClosureHolds(pv) ==
    LET n == Len(pv.points)
    IN /\ pv.closed = (n >= 3)
       /\ pv.closed => /\ pv.points[1].x = pv.points[n].x
                       /\ pv.points[1].y = pv.points[n].y
                       /\ ~pv.points[n].deletable

\* C1: closure invariant.  A polygon that started empty and has only seen
\* add_point / remove_point calls is closed exactly when it stores at least 3
\* points, and when closed its first and last stored points have the same
\* coordinates and the last one is not deletable.
C1_ClosureInvariant ==
    trip.phase = "ops" => \A pv \in PolygonsOf(StoreValue) : ClosureHolds(pv)

\* C2: undo/redo round trip.  After N mutating calls on the fresh store, N
\* undos leave the store empty, and N redos after that leave it as it was
\* after the N-th call.
C2_RoundTrip ==
    /\ (trip.phase = "undo" /\ trip.k = trip.n) => StoreValue = <<>>
    /\ (trip.phase = "redo" /\ trip.j = trip.n) => StoreValue = trip.final

\* C3: snapshot fidelity.  Every snapshot a call pushes (a save onto
\* undo_stack, undo onto redo_stack, redo onto undo_stack) has the contents
\* the store had when it was taken: same ids, kinds, point sequences and
\* closed flags.
C3_SnapshotFidelity ==
    [][Stepped =>
        /\ last'.op = "undo" => DictValue(heap', Top(redo_stack')) = StoreValue
        /\ last'.op = "redo" => DictValue(heap', Top(undo_stack')) = StoreValue
        /\ (last'.op \notin {"undo", "redo"} /\ Len(undo_stack') > Len(undo_stack))
              => DictValue(heap', undo_stack'[Len(undo_stack) + 1]) = StoreValue]_vars

\* Objects owned by the live store and by each history entry.
Holders == <<plots>> \o undo_stack \o redo_stack
NoSharing ==
    LET owned == [i \in 1..Len(Holders) |-> Reachable(heap, {Holders[i]})]
    IN \A i, j \in 1..Len(Holders) : i < j => owned[i] \cap owned[j] = {}
MutatingCalls == {"add_point", "delete_point_near", "add_plot", "remove_plot", "remove_point"}
EntriesKept ==
    (Stepped /\ last'.op \in MutatingCalls) =>
        /\ \A i \in 1..Len(undo_stack) :
              DictValue(heap', undo_stack'[i]) = DictValue(heap, undo_stack[i])
        /\ \A i \in 1..Len(redo_stack') :
              DictValue(heap', redo_stack'[i]) = DictValue(heap, redo_stack[i])

\* C4: aliasing freedom.  The live store and the entries of the two stacks
\* own pairwise disjoint sets of objects, and a call that mutates the live
\* store leaves the contents of every entry that stays on a stack unchanged.
C4_AliasingFreedom == []NoSharing /\ [][EntriesKept]_vars

\* a call has just mutated the live store while the undo stack held earlier
\* snapshots, one of them a shape with points
C4_Witness ==
    /\ last.op \in {"add_point", "delete_point_near"}
    /\ last.emits > 0
    /\ pre.undo > 0
    /\ Len(undo_stack) > pre.undo
    /\ \E i \in 1..Len(undo_stack) : \E j \in 1..Len(undo_stack[i]) :
          ~IsPoint(heap[undo_stack[i][j].ref]) /\ Items(heap, undo_stack[i][j].ref) # <<>>

\* Calls that save a snapshot before they change the store.
SavingCalls == {"add_plot", "remove_plot", "clear", "save_state_for_undo",
                "add_point", "delete_point_near"}
\* C5: redo invalidation.  A mutating call (one that saves a snapshot) made
\* after an undo empties redo_stack; redo on an empty redo_stack returns
\* False; and redo_stack only becomes non-empty again by an undo that succeeds.
C5_RedoInvalidation ==
    [][/\ (Stepped /\ last'.op \in SavingCalls) => redo_stack' = <<>>
       /\ (redo_stack = <<>> /\ last'.op = "redo" /\ Redo) => (~last'.ret /\ redo_stack' = <<>>)
       /\ (redo_stack = <<>> /\ redo_stack' # <<>>) => (last'.op = "undo" /\ last'.ret)]_vars

\* a mutating call has just emptied a redo stack that an undo had filled
C5_Witness ==
    /\ last.op \in SavingCalls
    /\ pre.redo > 0
    /\ redo_stack = <<>>

\* The x of the single point a snapshot holds, and the bound on the stack as a state predicate.
SnapshotX(d) == DictValue(heap, d)[1].plot.points[1].x
C6_Bounded ==
    /\ (trip.phase = "ops" /\ trip.n > MaxUndoDepth) =>
          /\ Len(undo_stack) = MaxUndoDepth
          /\ \A i \in 1..MaxUndoDepth :
                /\ undo_stack[i] # <<>>
                /\ SnapshotX(undo_stack[i]) = trip.n - MaxUndoDepth + i - 2
    /\ (trip.phase = "undo" /\ trip.n > MaxUndoDepth) =>
          /\ Len(undo_stack) = MaxUndoDepth - trip.k
          /\ (last.op = "undo" /\ ~last.ret) => trip.k = MaxUndoDepth
\* C6: history bound.  After n > MaxUndoDepth mutating calls undo_stack holds
\* exactly MaxUndoDepth snapshots, those of the last MaxUndoDepth calls in
\* order (the i-th is the store before call n - MaxUndoDepth + i, which holds
\* the point added by the call before it); from there undo succeeds exactly
\* MaxUndoDepth times and then returns False.
C6_HistoryBound ==
    /\ []C6_Bounded
    /\ [][(trip.n > MaxUndoDepth /\ trip.phase \in {"ops", "undo"} /\ Undo)
             => (last'.ret <=> trip.k < MaxUndoDepth)]_vars

\* more than MaxUndoDepth calls, MaxUndoDepth undos, and one more undo refused
C6_Witness ==
    /\ trip.phase = "undo"
    /\ trip.n > MaxUndoDepth
    /\ trip.k = MaxUndoDepth
    /\ last.op = "undo"
    /\ ~last.ret

\* Some deletable point of the store lies within t of (x, y).
DeletableNear(x, y, t) ==
    \E i \in 1..Len(StoreValue) :
       \E k \in 1..Len(StoreValue[i].plot.points) :
          LET p == StoreValue[i].plot.points[k]
          IN /\ p.deletable
             /\ t >= 0
             /\ (p.x - x) * (p.x - x) + (p.y - y) * (p.y - y) <= t * t
\* C7: hit-test threshold.  delete_point_near(x, y, t) returns True exactly
\* when the store holds a deletable point (a Point plot or a point of a
\* shape) at Euclidean distance <= t from (x, y); when it returns False the
\* plots and both stacks are unchanged and no signal is emitted.
C7_HitTest ==
    [][last'.op = "delete_point_near" =>
         \A c \in HitCoords, t \in Thresholds :
            DeletePointNear(c[1], c[2], t) =>
               /\ last'.ret <=> DeletableNear(c[1], c[2], t)
               /\ ~last'.ret =>
                     /\ StoreValue' = StoreValue
                     /\ StackValue(undo_stack)' = StackValue(undo_stack)
                     /\ StackValue(redo_stack)' = StackValue(redo_stack)
                     /\ last'.emits = 0]_vars

\* a hit with the point at exactly the threshold distance removed
C7_Witness ==
    /\ last.op = "delete_point_near"
    /\ last.ret
    /\ pre.plots # StoreValue
    /\ \E i \in 1..Len(pre.plots) :
          \E k \in 1..Len(pre.plots[i].plot.points) :
             LET p == pre.plots[i].plot.points[k]
             IN p.deletable /\ p.x = 1 /\ p.y = 0
                /\ \A q \in 1..Len(StoreValue) : p.id \notin PointIds(StoreValue[q].plot)

\* How non-deletable points come and go in a polygon across one call.
ClosingPointRule ==
    (Stepped /\ last'.op \in {"add_point", "delete_point_near", "remove_point"}) =>
        \A a \in PolygonsOf(StoreValue) : \A b \in PolygonsOf(StoreValue') :
           a.id = b.id =>
              /\ NonDeletableIds(a) \ NonDeletableIds(b) # {} => Len(b.points) < 3
              /\ \A q \in NonDeletableIds(b) \ NonDeletableIds(a) :
                    /\ b.closed
                    /\ b.points[Len(b.points)].id = q
                    /\ q = CloseId(b.points[1].id)
\* C8: closing-point protection.  remove_point with the id of a polygon's
\* closing point returns False and leaves the polygon unchanged, in states
\* restored by undo/redo too; and when a call on a polygon makes a
\* non-deletable point disappear the polygon is left with fewer than 3 points,
\* when it makes one appear that point is the last one, closes the polygon and
\* is named after the first point.
C8_ClosingPointProtection ==
    [][/\ last'.op = "remove_point" =>
             \A id \in ShapeIds : \A pid \in ProtectedIds(id) :
                (EndsWithClose(pid) /\ RemovePoint(id, pid)) =>
                    (~last'.ret /\ StoreValue' = StoreValue)
       /\ ClosingPointRule]_vars

\* remove_point has just been refused on a polygon that an undo restored and
\* that has its closing point
C8_Witness ==
    /\ last.op = "remove_point"
    /\ ~last.ret
    /\ redo_stack # <<>>
    /\ \E pv \in PolygonsOf(StoreValue) :
          \E q \in NonDeletableIds(pv) : EndsWithClose(q)

\* C9: single-step undo of add_point.  In Polyline or Polygon mode, an undo
\* made right after an add_point that added its point restores the plots to
\* what they were just before that add_point.
C9_SingleStepUndo ==
    [][(/\ Stepped
        /\ last'.op = "undo"
        /\ last.op = "add_point"
        /\ last.emits > 0
        /\ current_plot_type \in ShapeModes
        /\ current_plot_id # NoId) => StoreValue' = pre.plots]_vars

\* The store holds plot id of the given kind with a new deletable point at (x, y).
Landed(before, after, id, kind, x, y) ==
    \E i \in 1..Len(after) :
       /\ after[i].key = id
       /\ after[i].plot.kind = kind
       /\ \E k \in 1..Len(after[i].plot.points) :
             LET p == after[i].plot.points[k]
             IN /\ p.deletable /\ p.x = x /\ p.y = y
                /\ \A j \in 1..Len(before) : p.id \notin PointIds(before[j].plot)
\* C10: add_point always lands.  In Polyline or Polygon mode every
\* add_point(x, y) ends with the store holding a plot of the mode's kind under
\* current_plot_id that contains a new deletable point at (x, y), and with a
\* data_changed signal emitted.
C10_AddPointLands ==
    [][(current_plot_type \in ShapeModes /\ last'.op = "add_point") =>
         \A c \in AddCoords :
            AddPoint(c[1], c[2]) =>
               /\ last'.emits > 0
               /\ Landed(StoreValue, StoreValue', current_plot_id', current_plot_type,
                         c[1], c[2])]_vars

\* Ids of the plots in the store and in the snapshots of the undo stack.
KnownIds ==
    DictKeys(plots) \cup UNION {DictKeys(undo_stack[i]) : i \in 1..Len(undo_stack)}

\* C11: Point mode never accumulates.  In Point mode every add_point(x, y)
\* appends exactly one new deletable Point plot at (x, y) under an id that was
\* not in use, pushes exactly one snapshot, leaves the plots that were there
\* unchanged and leaves current_plot_id unchanged.
C11_PointMode ==
    [][(current_plot_type = POINT /\ last'.op = "add_point") =>
         \A c \in AddCoords :
            AddPoint(c[1], c[2]) =>
               /\ Len(StoreValue') = Len(StoreValue) + 1
               /\ SubSeq(StoreValue', 1, Len(StoreValue)) = StoreValue
               /\ LET e == StoreValue'[Len(StoreValue')]
                  IN /\ e.plot.kind = POINT
                     /\ e.plot.id = e.key
                     /\ e.key \notin KnownIds
                     /\ e.plot.points[1].deletable
                     /\ e.plot.points[1].x = c[1]
                     /\ e.plot.points[1].y = c[2]
               /\ Len(undo_stack') = Len(undo_stack) + 1
               /\ current_plot_id' = current_plot_id]_vars

\* two add_point calls in Point mode with the same coordinates left two plots
C11_Witness ==
    /\ current_plot_type = POINT
    /\ last.op = "add_point"
    /\ \E i, j \in 1..Len(StoreValue) :
          /\ i < j
          /\ StoreValue[i].plot.kind = POINT
          /\ StoreValue[j].plot.kind = POINT
          /\ StoreValue[i].key # StoreValue[j].key
          /\ StoreValue[i].plot.points[1].x = StoreValue[j].plot.points[1].x
          /\ StoreValue[i].plot.points[1].y = StoreValue[j].plot.points[1].y
          /\ ~(StoreValue[i].key = ExternalId \/ StoreValue[j].key = ExternalId)

\* What a call that failed must leave behind: False, no signal, the plots and
\* both stacks as they were.
StoreUnchanged ==
    /\ StoreValue' = StoreValue
    /\ StackValue(undo_stack)' = StackValue(undo_stack)
    /\ StackValue(redo_stack)' = StackValue(redo_stack)
Failed == ~last'.ret /\ last'.emits = 0 /\ StoreUnchanged

\* C12: failed operations change nothing.  undo on an empty undo stack, redo
\* on an empty redo stack, remove_plot of an id that is not in the store and
\* remove_point of an id that is not in the shape return False, leave plots,
\* undo_stack and redo_stack as they were and emit no signal.
C12_FailedOperations ==
    [][/\ (undo_stack = <<>> /\ last'.op = "undo" /\ Undo) => Failed
       /\ (redo_stack = <<>> /\ last'.op = "redo" /\ Redo) => Failed
       /\ (last'.op = "remove_plot" /\ RemovePlot(UnknownId)) => Failed
       /\ last'.op = "remove_point" =>
             \A id \in ShapeIds : RemovePoint(id, UnknownId) => Failed]_vars

\* remove_point with an unknown id has just been refused on a polyline that
\* has points, with history on the undo stack
C12_Witness ==
    /\ last.op = "remove_point"
    /\ ~last.ret
    /\ undo_stack # <<>>
    /\ \E i \in 1..Len(StoreValue) :
          StoreValue[i].plot.kind = POLYLINE /\ StoreValue[i].plot.points # <<>>

StoreCalls == {"add_plot", "remove_plot", "clear"}

\* C13: snapshot before mutate.  add_plot, remove_plot of an id in the store
\* and clear each push exactly one snapshot, and an undo made right after one
\* of them restores the plots to what they were before it.
C13_SnapshotBeforeMutate ==
    [][/\ (Stepped /\ last'.op \in StoreCalls) => Len(undo_stack') = Len(undo_stack) + 1
       /\ (/\ Stepped
           /\ last'.op = "undo"
           /\ last.op \in StoreCalls
           /\ last.op = "remove_plot" => last.ret) => StoreValue' = pre.plots]_vars

\* C14: change notification.  add_plot, clear, a successful remove_plot, undo
\* or redo, and every add_point / delete_point_near that changed the plots
\* emit data_changed; the slot of the last signal sees the plots the call
\* leaves, and when the call changed the plots no slot sees the plots as they
\* were before it; calls that fail or change nothing emit no signal.
C14_ChangeNotification ==
    /\ last.op \in {"add_plot", "clear"} => last.emits >= 1
    /\ last.op \in {"remove_plot", "undo", "redo"} => (last.emits >= 1 <=> last.ret)
    /\ last.op \in {"add_point", "delete_point_near"} =>
          (last.emits >= 1 <=> StoreValue # pre.plots)
    /\ last.op \in {"remove_point", "save_state_for_undo"} => last.emits = 0
    /\ Len(last.seen) = last.emits
    /\ last.emits >= 1 =>
          /\ Top(last.seen) = StoreValue
          /\ StoreValue # pre.plots =>
                \A i \in 1..Len(last.seen) : last.seen[i] # pre.plots

\* the add_point that creates a shape has emitted twice: the first slot saw
\* the empty shape, the second the shape with its point
C14_Witness ==
    /\ last.op = "add_point"
    /\ last.emits = 2
    /\ last.seen[1] # last.seen[2]
    /\ last.seen[2] = StoreValue

\* Ids of the plots get_plots_to_update returns, in order, and of the plots
\* of the store whose update flag is set.
ToUpdateIds ==
    LET r == get_plots_to_update(Cur) IN [i \in 1..Len(r) |-> heap[r[i]].id]
DirtyIds == {plots[i].key : i \in {j \in 1..Len(plots) : heap[plots[j].ref].update}}

\* C15: dirty-sync contract.  get_plots_to_update returns exactly the plots of
\* the store whose update flag is set; right after mark_all_updated it returns
\* nothing; add_plot leaves the added plot flagged; after a successful undo or
\* redo every plot of the restored store is flagged.
C15_DirtySync ==
    /\ Range(ToUpdateIds) = DirtyIds
    /\ Len(ToUpdateIds) = Cardinality(DirtyIds)
    /\ last.op = "mark_all_updated" => ToUpdateIds = <<>>
    /\ last.op = "add_plot" => ExternalId \in Range(ToUpdateIds)
    /\ (last.op \in {"undo", "redo"} /\ last.ret) => Range(ToUpdateIds) = DictKeys(plots)

\* an undo has restored a store with two plots after the renderer had marked
\* everything updated
C15_Witness ==
    /\ last.op = "undo"
    /\ last.ret
    /\ Len(plots) >= 2
    /\ Len(ToUpdateIds) = Len(plots)
    /\ \E i \in 1..Len(redo_stack) : \E j \in 1..Len(redo_stack[i]) :
          ~heap[redo_stack[i][j].ref].update

\* The plot stored under id in the store contents sv (sv holds one).
PlotOf(sv, id) == sv[CHOOSE i \in 1..Len(sv) : sv[i].key = id].plot
Has(sv, id) == \E i \in 1..Len(sv) : sv[i].key = id

\* add_point(x, y) has taken the unclosed two-point polygon `old` to `new` by
\* appending the point and exactly one closing point.
AutoClosed(old, new, x, y) ==
    /\ new.closed
    /\ Len(new.points) = 4
    /\ SubSeq(new.points, 1, 2) = old.points
    /\ new.points[3].x = x /\ new.points[3].y = y /\ new.points[3].deletable
    /\ ~new.points[4].deletable
    /\ new.points[4].x = new.points[1].x /\ new.points[4].y = new.points[1].y

\* C16: auto-close step.  The add_point call that brings an unclosed polygon
\* to 3 points appends exactly one non-deletable closing point with the
\* coordinates of the first point and sets closed, whatever the coordinates of
\* the three points; a closed polygon that still has 3 points or more after a
\* point call is still closed.
C16_AutoClose ==
    [][/\ (/\ last'.op = "add_point"
           /\ current_plot_type = POLYGON
           /\ Has(StoreValue, current_plot_id)
           /\ PlotOf(StoreValue, current_plot_id).kind = POLYGON
           /\ ~PlotOf(StoreValue, current_plot_id).closed
           /\ Len(PlotOf(StoreValue, current_plot_id).points) = 2)
          => \A c \in AddCoords :
                AddPoint(c[1], c[2]) =>
                   AutoClosed(PlotOf(StoreValue, current_plot_id),
                              PlotOf(StoreValue', current_plot_id), c[1], c[2])
       /\ last'.op \in {"add_point", "delete_point_near", "remove_point"}
          => \A i \in 1..Len(StoreValue) :
                LET id == StoreValue[i].key
                    old == StoreValue[i].plot
                IN (old.kind = POLYGON /\ old.closed /\ Has(StoreValue', id)
                    /\ Len(PlotOf(StoreValue', id).points) >= 3)
                   => PlotOf(StoreValue', id).closed]_vars

\* add_point(x, y) has taken the closed polygon `old` to `new` by placing the
\* point just before the closing point, which is still the last element.
InsertedBeforeClosing(old, new, x, y) ==
    LET n == Len(old.points)
    IN /\ Len(new.points) = n + 1
       /\ SubSeq(new.points, 1, n - 1) = SubSeq(old.points, 1, n - 1)
       /\ new.points[n].x = x /\ new.points[n].y = y /\ new.points[n].deletable
       /\ new.points[n].id \notin PointIds(old)
       /\ new.points[n + 1] = old.points[n]
       /\ ~new.points[n + 1].deletable

\* C17: insertion while closed.  add_point on a closed polygon places the new
\* point immediately before the closing point, keeps the relative order of
\* the other points, and leaves the non-deletable closing point last.
C17_InsertWhileClosed ==
    [][(/\ last'.op = "add_point"
        /\ current_plot_type = POLYGON
        /\ Has(StoreValue, current_plot_id)
        /\ PlotOf(StoreValue, current_plot_id).kind = POLYGON
        /\ PlotOf(StoreValue, current_plot_id).closed)
       => \A c \in AddCoords :
             AddPoint(c[1], c[2]) =>
                InsertedBeforeClosing(PlotOf(StoreValue, current_plot_id),
                                      PlotOf(StoreValue', current_plot_id), c[1], c[2])]_vars

\* C18: un-closing.  When a point removal leaves a closed polygon with fewer
\* than 3 stored points, closed becomes false and the closing point is
\* discarded: the unclosed polygon holds no non-deletable point.
C18_Unclosing ==
    [][last'.op \in {"delete_point_near", "remove_point"} =>
         \A i \in 1..Len(StoreValue) :
            LET id == StoreValue[i].key
                old == StoreValue[i].plot
            IN (/\ old.kind = POLYGON
                /\ old.closed
                /\ Has(StoreValue', id)
                /\ Len(PlotOf(StoreValue', id).points) < Len(old.points)
                /\ Len(PlotOf(StoreValue', id).points) < 3)
               => /\ ~PlotOf(StoreValue', id).closed
                  /\ NonDeletableIds(PlotOf(StoreValue', id)) = {}]_vars

\* C19: non-deletable points are protected.  remove_point(id) on a polyline or
\* a polygon, where id names a point whose deletable flag is false, returns
\* false and leaves the shape's point sequence unchanged.
C19_NonDeletableProtected ==
    [][last'.op = "remove_point" =>
          \A id \in ShapeIds : \A pid \in ProtectedIds(id) :
             RemovePoint(id, pid) => (~last'.ret /\ StoreValue' = StoreValue)]_vars

\* Ids of the polylines and polygons in the store contents sv.
ShapeKeys(sv) == {sv[i].key : i \in {j \in 1..Len(sv) : sv[j].plot.kind \in ShapeModes}}

\* C20: shapes are never auto-deleted.  A polyline or polygon that was in the
\* store before a call is still there after it, however few points it has
\* left, unless the call was remove_plot, clear, undo or redo.
C20_NoAutoDelete ==
    last.op \notin {"init", "remove_plot", "clear", "undo", "redo"} =>
       \A id \in ShapeKeys(pre.plots) :
          /\ Has(StoreValue, id)
          /\ PlotOf(StoreValue, id).kind = PlotOf(pre.plots, id).kind

\* a delete_point_near has just taken the last point of a shape, which is
\* still in the store
C20_Witness ==
    /\ last.op = "delete_point_near"
    /\ last.ret
    /\ \E id \in ShapeKeys(pre.plots) :
          /\ Len(PlotOf(pre.plots, id).points) = 1
          /\ Has(StoreValue, id)
          /\ PlotOf(StoreValue, id).points = <<>>

\* C21: ending the shape in progress.  Setting current_plot_type (to any
\* value) and clear_current_plot each set current_plot_id to none and leave
\* the store and its history alone; the next add_point in Polyline or Polygon
\* mode creates a new plot under an id that was not in use, makes it the
\* current plot, and leaves every plot that was there unchanged.
C21_EndingShape ==
    [][/\ ((\E v \in PlotData2D : SetCurrentPlotType(v)) \/ ClearCurrentPlot)
          => /\ current_plot_id' = NoId
             /\ StoreValue' = StoreValue
             /\ StackValue(undo_stack)' = StackValue(undo_stack)
             /\ StackValue(redo_stack)' = StackValue(redo_stack)
       /\ (current_plot_type \in ShapeModes /\ current_plot_id = NoId /\ last'.op = "add_point")
          => \A c \in AddCoords :
                AddPoint(c[1], c[2]) =>
                   /\ Len(StoreValue') = Len(StoreValue) + 1
                   /\ SubSeq(StoreValue', 1, Len(StoreValue)) = StoreValue
                   /\ LET e == StoreValue'[Len(StoreValue')]
                      IN /\ e.key \notin KnownIds
                         /\ e.key = current_plot_id'
                         /\ e.plot.kind = current_plot_type
                         /\ Len(e.plot.points) = 1
                         /\ e.plot.points[1].x = c[1] /\ e.plot.points[1].y = c[2]]_vars

\* after the shape in progress was ended, add_point has started a second shape
\* of the same kind next to the first, which kept its point
C21_Witness ==
    /\ last.op = "add_point"
    /\ Len(StoreValue) = 2
    /\ StoreValue[1].plot.kind \in ShapeModes
    /\ StoreValue[2].plot.kind = StoreValue[1].plot.kind
    /\ Len(StoreValue[1].plot.points) = 1
    /\ Len(StoreValue[2].plot.points) = 1
    /\ current_plot_id = StoreValue[2].key

\* Positions <<plot, point>> of the deletable points of the store contents sv
\* that lie within t of (x, y), and the first of them in scan order.
Matches(sv, x, y, t) ==
    {m \in UNION {{<<i, k>> : k \in 1..Len(sv[i].plot.points)} : i \in 1..Len(sv)} :
        LET p == sv[m[1]].plot.points[m[2]]
        IN /\ p.deletable
           /\ t >= 0
           /\ (p.x - x) * (p.x - x) + (p.y - y) * (p.y - y) <= t * t}
FirstMatch(sv, x, y, t) ==
    CHOOSE m \in Matches(sv, x, y, t) :
       \A n \in Matches(sv, x, y, t) : m[1] < n[1] \/ (m[1] = n[1] /\ m[2] <= n[2])
\* The deletable points of sv as <<plot id, point id>>.
DeletablePoints(sv) ==
    UNION {{<<sv[i].key, sv[i].plot.points[k].id>> :
               k \in {j \in 1..Len(sv[i].plot.points) : sv[i].plot.points[j].deletable}} :
           i \in 1..Len(sv)}

\* C22: first match wins.  When delete_point_near(x, y, t) returns True, the
\* deletable point that is gone is the first deletable point within t in scan
\* order (plots in store order, points of a shape in sequence order), and no
\* other deletable point is gone, even when a later point is nearer.
C22_FirstMatchWins ==
    [][last'.op = "delete_point_near" =>
         \A c \in HitCoords, t \in Thresholds :
            (DeletePointNear(c[1], c[2], t) /\ last'.ret) =>
               LET m == FirstMatch(StoreValue, c[1], c[2], t)
                   gone == <<StoreValue[m[1]].key, StoreValue[m[1]].plot.points[m[2]].id>>
               IN DeletablePoints(StoreValue') = DeletablePoints(StoreValue) \ {gone}]_vars

\* the first point (1, 0) of a shape was removed while the later point (0, 0)
\* of the same shape, which lies within the same threshold of (0, 0), stayed
C22_Witness ==
    /\ last.op = "delete_point_near"
    /\ last.ret
    /\ \E i \in 1..Len(pre.plots) :
          LET old == pre.plots[i].plot
          IN /\ old.kind \in ShapeModes
             /\ Len(old.points) = 2
             /\ old.points[1].x = 1 /\ old.points[1].y = 0
             /\ old.points[2].x = 0 /\ old.points[2].y = 0
             /\ Has(StoreValue, pre.plots[i].key)
             /\ PlotOf(StoreValue, pre.plots[i].key).points = <<old.points[2]>>

\* Coordinates of the deletable points of the plot value pv, in order.
UserRing(pv) ==
    LET IsUser(p) == p.deletable
        user == SelectSeq(pv.points, IsUser)
    IN [k \in 1..Len(user) |-> <<user[k].x, user[k].y>>]
\* Positions in StoreValue of the polygons with at least 3 stored points.
BigPolygons ==
    {i \in 1..Len(StoreValue) :
        StoreValue[i].plot.kind = POLYGON /\ Len(StoreValue[i].plot.points) >= 3}

\* C23: boundary extraction.  In every state reached through add_point,
\* delete_point_near, undo and redo, the boundary ring is that of the first
\* polygon in store order with at least 3 stored points, and is exactly the
\* coordinates of that polygon's deletable points in order, without the
\* closing point; it is empty when there is no such polygon.
C23_BoundaryExtraction ==
    _extract_boundary(Cur) =
       IF BigPolygons = {} THEN <<>> ELSE UserRing(StoreValue[Min(BigPolygons)].plot)

\* C24: obstacle extraction.  The obstacle rings are the rings of exactly the
\* polygons with at least 3 stored points that come after the boundary polygon
\* (the first such polygon) in store order: the boundary polygon is never an
\* obstacle, also when a polygon with fewer than 3 points precedes it.
C24_ObstacleExtraction ==
    LET idx == [i \in 1..Len(plots) |-> i]
        After(i) == i \in BigPolygons /\ i > Min(BigPolygons)
        after == SelectSeq(idx, After)
    IN _extract_obstacles(Cur) = [k \in 1..Len(after) |-> RingOf(heap, plots[after[k]].ref)]

\* C25: one-shot worker result.  Every run of a worker thread emits exactly
\* one result signal: the success signal when subprocess.run returned and the
\* try block ran through, error_occurred when the subprocess exited non-zero
\* or another exception was raised; before the run ends nothing is emitted.
C25_OneShotResult ==
    \A t \in Workers :
       LET w == worker[t]
       IN /\ w.pc = "finished" =>
                /\ w.success + w.error = 1
                /\ w.success = 1 <=> w.outcome = "returned"
          /\ w.pc # "finished" => (w.success = 0 /\ w.error = 0)

\* the three threads have finished, one after each way subprocess.run can end
C25_Witness ==
    /\ \A t \in Workers : worker[t].pc = "finished"
    /\ worker["GitBranchLoaderThread"].outcome = "returned"
    /\ worker["GitBranchChangerThread"].outcome = "CalledProcessError"
    /\ worker["ScriptExecutorThread"].outcome = "Exception"

\* C26: left press without Ctrl.  The event makes exactly the call
\* add_point(x, y) on the view model, sets _is_dragging to False and
\* _drag_start_pos to (x, y), and is consumed; a move or a release event makes
\* no call on the view model and leaves the editor as it is.
C26_PlainLeftPress ==
    [][/\ handler'.event = "press" =>
             \A c \in AddCoords :
                MousePress(c[1], c[2], "left", FALSE) =>
                   /\ Canvas_add_point(c[1], c[2])
                   /\ handler'.calls = <<"add_point">>
                   /\ ~handler'.is_dragging
                   /\ handler'.drag_start_pos = c
                   /\ handler'.consumed
       /\ (handler'.event \in {"move", "release"} /\ handler'.n = handler.n + 1) =>
             /\ handler'.calls = <<>>
             /\ UNCHANGED core]_vars

\* a plain left press at (1, 0) while a drag was going on has added a point
\* there and restarted the drag tracking from (1, 0)
C26_Witness ==
    /\ handler.event = "press"
    /\ handler.calls = <<"add_point">>
    /\ handler.n = 3
    /\ handler.drag_start_pos = <<1, 0>>
    /\ ~handler.is_dragging
    /\ view.x # [lo |-> 0, hi |-> 100, den |-> 1]
    /\ last.op = "add_point"
    /\ \E i \in 1..Len(StoreValue) : \E k \in 1..Len(StoreValue[i].plot.points) :
          StoreValue[i].plot.points[k].x = 1 /\ StoreValue[i].plot.points[k].y = 0

\* C27: left press with Ctrl.  The event makes exactly the call
\* delete_point_near(x, y, 10.0) and no add_point, is consumed exactly when
\* that call returned True, and leaves _is_dragging and _drag_start_pos as
\* they were.
C27_CtrlLeftPress ==
    [][handler'.event = "press" =>
          \A c \in AddCoords :
             MousePress(c[1], c[2], "left", TRUE) =>
                /\ Canvas_delete_point_near(c[1], c[2], 10)
                /\ handler'.calls = <<"delete_point_near">>
                /\ handler'.consumed <=> last'.ret
                /\ handler'.is_dragging = handler.is_dragging
                /\ handler'.drag_start_pos = handler.drag_start_pos]_vars

\* a Ctrl+click during a drag has deleted a point, was consumed and left the
\* drag going from (6, 0)
C27_Witness ==
    /\ handler.event = "press"
    /\ handler.calls = <<"delete_point_near">>
    /\ handler.consumed
    /\ last.op = "delete_point_near"
    /\ last.ret
    /\ handler.is_dragging
    /\ handler.drag_start_pos = <<6, 0>>

\* The range `new` is the range `old` moved by delta * (width of old) / size.
PannedBy(old, new, delta, size) ==
    /\ (new.lo * old.den - old.lo * new.den) * size = delta * (old.hi - old.lo) * new.den
    /\ (new.hi * old.den - old.hi * new.den) * size = delta * (old.hi - old.lo) * new.den

\* C28: drag threshold.  A move event with the left button held, drag tracking
\* active and a displacement from _drag_start_pos strictly greater than 5.0
\* pans the view, sets _is_dragging, moves _drag_start_pos to the current
\* position and is consumed; any other move event is not consumed and leaves
\* the view, _is_dragging and _drag_start_pos as they were.  The displacement
\* is measured from the latest _drag_start_pos.
C28_DragThreshold ==
    [][handler'.event = "move" =>
          \A c \in MoveCoords, held \in BOOLEAN, size \in WidgetSizes :
             MouseMove(c[1], c[2], held, size) =>
                LET start == handler.drag_start_pos
                    Far == (c[1] - start[1]) * (c[1] - start[1])
                              + (c[2] - start[2]) * (c[2] - start[2]) > 25
                IN IF held /\ start # NoPos /\ Far
                   THEN /\ handler'.consumed
                        /\ handler'.is_dragging
                        /\ handler'.drag_start_pos = c
                        /\ PannedBy(view.x, view'.x, start[1] - c[1], size[1])
                        /\ PannedBy(view.y, view'.y, c[2] - start[2], size[2])
                        /\ view' # view
                   ELSE /\ ~handler'.consumed
                        /\ view' = view
                        /\ handler'.is_dragging = handler.is_dragging
                        /\ handler'.drag_start_pos = handler.drag_start_pos]_vars

\* after a press at (0, 0) and a drag to (6, 0), a move did not pan: it was
\* within 5.0 of (6, 0)
C28_Witness ==
    /\ handler.event = "move"
    /\ ~handler.consumed
    /\ handler.n = 3
    /\ handler.is_dragging
    /\ handler.drag_start_pos = <<6, 0>>
    /\ view.x = [lo |-> -6, hi |-> 94, den |-> 1]

\* The range `new` has `tenths`/10 times the width of `old`, and the
\* coordinate c lies at the same relative position in both.
AnchoredZoom(old, new, c, tenths) ==
    /\ 10 * old.den * (new.hi - new.lo) = tenths * (old.hi - old.lo) * new.den
    /\ (c * new.den - new.lo) * (old.hi - old.lo) = (c * old.den - old.lo) * (new.hi - new.lo)

\* C29: anchor zoom.  A Ctrl+wheel event with factor f (1.1 for scroll up, 0.9
\* for scroll down), old range [a, b] and cursor coordinate c on an axis gives
\* a range [a', b'] of width f * (b - a) with
\* (c - a') / (b' - a') = (c - a) / (b - a), and is consumed; a wheel event
\* without Ctrl leaves the view as it is and is not consumed.
C29_AnchorZoom ==
    [][handler'.event = "wheel" =>
          \A ctrl \in BOOLEAN, w \in WheelInputs :
             Wheel(ctrl, w[1], w[2], w[3]) =>
                IF ctrl
                THEN /\ handler'.consumed
                     /\ \E tenths \in {11, 9} :
                           /\ w[1] > 0 => tenths = 11
                           /\ w[1] < 0 => tenths = 9
                           /\ AnchoredZoom(view.x, view'.x, w[2], tenths)
                           /\ AnchoredZoom(view.y, view'.y, w[3], tenths)
                ELSE /\ ~handler'.consumed
                     /\ view' = view]_vars

\* a Ctrl+scroll down with the cursor at (0, 100), a corner of the view
\* [0, 100] x [0, 100], has left that corner where it was
C29_Witness ==
    /\ handler.event = "wheel"
    /\ handler.consumed
    /\ view.x = [lo |-> 0, hi |-> 90, den |-> 1]
    /\ view.y = [lo |-> 10, hi |-> 100, den |-> 1]

\* C30: renderer sync is total.  Whenever update() runs for a change
\* notification it renders every plot to update and reaches
\* mark_all_updated, also when a polyline or polygon of the store holds no
\* point: no update() ends in an exception.
C30_RenderTotal == widget.ended # "raised"

\* C31: delete_point_near removes exactly one user point.  After a call that
\* returned True the store has exactly one deletable point fewer than before;
\* a hit Point plot is gone whole, a hit polygon has lost the matched point
\* and at most its closing point besides; every other plot is as it was, in
\* the same place; and the undo stack has grown by exactly one snapshot.
C31_DeleteOne ==
    (last.op = "delete_point_near" /\ last.ret) =>
        /\ Cardinality(DeletablePoints(StoreValue))
              = Cardinality(DeletablePoints(pre.plots)) - 1
        /\ Len(undo_stack) = pre.undo + 1
        /\ \E i \in 1..Len(pre.plots) :
              LET old == pre.plots[i].plot
              IN IF old.kind = POINT
                 THEN old.points[1].deletable /\ StoreValue = RemoveAt(pre.plots, i)
                 ELSE /\ Len(StoreValue) = Len(pre.plots)
                      /\ \A j \in 1..Len(pre.plots) : j # i => StoreValue[j] = pre.plots[j]
                      /\ StoreValue[i].key = pre.plots[i].key
                      /\ \E k \in 1..Len(old.points) :
                            LET rest == RemoveAt(old.points, k)
                                new == StoreValue[i].plot.points
                            IN /\ old.points[k].deletable
                               /\ \/ new = rest
                                  \/ /\ rest # <<>>
                                     /\ ~rest[Len(rest)].deletable
                                     /\ new = SubSeq(rest, 1, Len(rest) - 1)

\* a point of a polygon holding two user points and a closing point was
\* deleted and the closing point went with it
C31_Witness ==
    /\ last.op = "delete_point_near"
    /\ last.ret
    /\ \E i \in 1..Len(pre.plots) :
          /\ pre.plots[i].plot.kind = POLYGON
          /\ Len(pre.plots[i].plot.points) = 3
          /\ NonDeletableIds(pre.plots[i].plot) # {}
          /\ Len(StoreValue[i].plot.points) = 1

\* C32: current-shape validity.  Whenever _current_plot_id is not None the
\* store holds a plot with that id, and its kind is _current_plot_type;
\* through every interleaving of add_point, delete_point_near, undo, redo,
\* mode changes and clear_current_plot.
C32_CurrentShapeValid ==
    current_plot_id # NoId =>
        /\ Has(StoreValue, current_plot_id)
        /\ PlotOf(StoreValue, current_plot_id).kind = current_plot_type

\* C33: single closing point.  In every polygon reached through add_point,
\* delete_point_near, undo and redo at most one point is non-deletable; a
\* non-deletable point is there only while closed is true, and it is the last
\* point of the sequence.  So every point of an unclosed polygon is deletable.
C33_SingleClosingPoint ==
    \A pv \in PolygonsOf(StoreValue) :
       LET fixed == {k \in 1..Len(pv.points) : ~pv.points[k].deletable}
       IN /\ Cardinality(fixed) <= 1
          /\ fixed # {} => pv.closed
          /\ fixed \subseteq {Len(pv.points)}

\* C34: combined history bound.  In every state the undo stack and the redo
\* stack together hold at most MaxUndoDepth snapshots, so neither holds more
\* than MaxUndoDepth, although redo pushes onto the undo stack without
\* trimming it.
C34_CombinedBound ==
    /\ Len(undo_stack) + Len(redo_stack) <= MaxUndoDepth
    /\ Len(undo_stack) <= MaxUndoDepth
    /\ Len(redo_stack) <= MaxUndoDepth

\* a redo has just filled the undo stack to MaxUndoDepth
C34_Witness ==
    /\ last.op = "redo"
    /\ last.ret
    /\ Len(undo_stack) = MaxUndoDepth
    /\ pre.undo = MaxUndoDepth - 1

\* C36: extracted rings are real polygons.  In every state reached through
\* add_point and delete_point_near the boundary ring, when there is one, and
\* every obstacle ring has at least 3 vertices; also for a closed polygon
\* reduced to two user points and its closing point.
C36_RealRings ==
    /\ _extract_boundary(Cur) # <<>> => Len(_extract_boundary(Cur)) >= 3
    /\ \A k \in 1..Len(_extract_obstacles(Cur)) : Len(_extract_obstacles(Cur)[k]) >= 3

\* C39: drag tracking.  In every state _is_dragging implies that
\* _drag_start_pos is set; after a left-button release (the consumed release)
\* _is_dragging is False and _drag_start_pos is None; and while
\* _drag_start_pos is None a move event leaves the view and _is_dragging
\* alone, and only a left press without Ctrl (the press that calls add_point)
\* sets _drag_start_pos again.
C39_DragTracking ==
    /\ [](/\ handler.is_dragging => handler.drag_start_pos # NoPos
          /\ (handler.event = "release" /\ handler.consumed) =>
                (~handler.is_dragging /\ handler.drag_start_pos = NoPos))
    /\ [][handler.drag_start_pos = NoPos =>
             /\ handler'.event = "move" =>
                   (view' = view /\ ~handler'.consumed /\ ~handler'.is_dragging)
             /\ handler'.drag_start_pos # NoPos =>
                   (handler'.event = "press" /\ handler'.calls = <<"add_point">>)]_vars

\* a press, a left release, and then a move that did not pan
C39_Witness ==
    /\ handler.n = 3
    /\ handler.event = "move"
    /\ ~handler.consumed
    /\ handler.drag_start_pos = NoPos
    /\ last.op = "add_point"

\* C37: loading state covers all workers.  Whenever a worker thread (branch
\* loader, branch changer or script executor) is running, the value of the
\* last loading_changed emitted is True; also when the result of one worker
\* has started another before the finished signal of the first is handled.
C37_LoadingCoversWorkers ==
    (\E t \in Workers : isRunning(worker, t)) => runner.loading = <<TRUE>>

\* C38: one worker per kind.  At most one thread of each kind is running at
\* any time; load_branches, change_branch or execute_algorithm called while
\* the thread of its kind is running starts no thread and emits no signal;
\* and whenever the last loading_changed emitted is True a
\* loading_changed(False) follows, a request whose execution script cannot be
\* created emitting both at once.
C38_OneWorkerPerKind ==
    /\ [](\A t \in Workers : runner.threads[t] <= 1)
    /\ [][\A t \in Workers :
             /\ (isRunning(worker, t) /\ WorkerStart(t)) =>
                   /\ worker' = worker
                   /\ runner' = [runner EXCEPT !.emitted = <<>>]
             /\ (~isRunning(worker, t) /\ WorkerStart(t) /\ worker' = worker) =>
                   /\ t = "ScriptExecutorThread"
                   /\ runner'.loading = <<FALSE>>
                   /\ runner'.emitted[1] = "loading_changed(True)"
                   /\ runner'.emitted[Len(runner'.emitted)] = "loading_changed(False)"]_vars
    /\ (runner.loading = <<TRUE>>) ~> (runner.loading = <<FALSE>>)

\* the last request was refused: it emitted nothing, and the branch changer,
\* started by the loader's result, is running with the controls enabled
C38_Witness ==
    /\ runner.emitted = <<>>
    /\ isRunning(worker, "GitBranchChangerThread")
    /\ runner.threads["GitBranchChangerThread"] = 1
    /\ runner.loading = <<FALSE>>

\* C35: dirty-flag sufficiency.  With a renderer that calls
\* get_plots_to_update() and then mark_all_updated() at every change
\* notification, no notification leaves out a plot of the store whose content
\* differs from what the renderer holds for its id, or for which it holds
\* nothing; so what the renderer holds after a call of add_point,
\* delete_point_near, undo or redo is the store.
C35_DirtyFlagsSuffice ==
    last.sync.on =>
        /\ ~last.sync.missed
        /\ last.emits >= 1 => last.sync.rendered = Range(StoreValue)

\* a delete_point_near was rendered from the flags while a second plot, not
\* flagged, was left as it had been rendered
C35_Witness ==
    /\ last.sync.on
    /\ last.op = "delete_point_near"
    /\ last.ret
    /\ Len(StoreValue) = 2
    /\ \E i \in 1..2 : ~heap[plots[i].ref].update /\ StoreValue[i] \in Range(pre.plots)
    /\ \E i \in 1..2 : StoreValue[i] \notin Range(pre.plots)

====
